---- MODULE Spec2Model ----
(***************************************************************************)
(* A model of tinytoml: the line/table parser of unmarshal.go, the value   *)
(* and array lexers it calls, the flattening of the table tree into the    *)
(* map handed to the caller, and the encoder of marshal.go.                *)
(*                                                                         *)
(* Text is modelled byte by byte: a Go string is a sequence of one         *)
(* character strings, so <<"a", " ", "=", " ", "1">> is the line `a = 1`.  *)
(***************************************************************************)
EXTENDS Integers, Sequences, FiniteSets, TLC

(***************************************************************************)
(* Characters                                                              *)
(***************************************************************************)
Digits == {"0", "1", "2", "3", "4", "5", "6", "7", "8", "9"}

LowerLetters == {"a", "b", "c", "d", "e", "f", "g", "h", "i", "j", "k", "l", "m",
                 "n", "o", "p", "q", "r", "s", "t", "u", "v", "w", "x", "y", "z"}

UpperLetters == {"A", "B", "C", "D", "E", "F", "G", "H", "I", "J", "K", "L", "M",
                 "N", "O", "P", "Q", "R", "S", "T", "U", "V", "W", "X", "Y", "Z"}

\* unicode.IsSpace restricted to the ASCII characters a document of the model holds
IsSpace(c) == c \in {" ", "\t", "\n", "\r"}

\* The byte order sort.Strings compares with, for the characters of the keys of
\* the model: ' ' < '$' < '-' < '.' < digits < upper case < '_' < lower case.
CharOrder == <<" ", "$", "-", ".", "0", "1", "2", "3", "4", "5", "6", "7", "8", "9",
               "A", "B", "C", "D", "E", "F", "G", "H", "I", "J", "K", "L", "M",
               "N", "O", "P", "Q", "R", "S", "T", "U", "V", "W", "X", "Y", "Z",
               "_",
               "a", "b", "c", "d", "e", "f", "g", "h", "i", "j", "k", "l", "m",
               "n", "o", "p", "q", "r", "s", "t", "u", "v", "w", "x", "y", "z">>

CharRank(c) == CHOOSE i \in 1..Len(CharOrder) : CharOrder[i] = c

DigitVal(c) == CharRank(c) - 5

\* unicode lower-casing of an ASCII letter (strings.EqualFold, strconv's lower)
Lower(c) == IF c \in UpperLetters THEN CharOrder[CharRank(c) + 27] ELSE c

(***************************************************************************)
(* The functions of package strings the parser and the encoder call        *)
(***************************************************************************)
RECURSIVE TrimLeft(_)
TrimLeft(s) == IF s # <<>> /\ IsSpace(Head(s)) THEN TrimLeft(Tail(s)) ELSE s

RECURSIVE TrimRight(_)
TrimRight(s) == IF s # <<>> /\ IsSpace(s[Len(s)])
                THEN TrimRight(SubSeq(s, 1, Len(s) - 1)) ELSE s

TrimSpace(s) == TrimRight(TrimLeft(s))

HasPrefix(s, p) == Len(s) >= Len(p) /\ SubSeq(s, 1, Len(p)) = p

HasSuffix(s, p) == Len(s) >= Len(p) /\ SubSeq(s, Len(s) - Len(p) + 1, Len(s)) = p

\* strings.Index: the 0-based offset of the first occurrence of sub, or -1
Index(s, sub) ==
    LET hits == {i \in 0..(Len(s) - Len(sub)) : SubSeq(s, i + 1, i + Len(sub)) = sub}
    IN IF hits = {} THEN -1 ELSE CHOOSE i \in hits : \A j \in hits : i <= j

\* strings.SplitN(s, sep, 2) for a non-empty separator
SplitN2(s, sep) ==
    LET i == Index(s, sep)
    IN IF i < 0 THEN <<s>> ELSE <<SubSeq(s, 1, i), SubSeq(s, i + Len(sep) + 1, Len(s))>>

\* strings.Split(s, sep) for a non-empty separator
RECURSIVE Split(_, _)
Split(s, sep) ==
    LET i == Index(s, sep)
    IN IF i < 0 THEN <<s>>
       ELSE <<SubSeq(s, 1, i)>> \o Split(SubSeq(s, i + Len(sep) + 1, Len(s)), sep)

\* strings.Join
RECURSIVE Join(_, _)
Join(parts, sep) ==
    IF parts = <<>> THEN <<>>
    ELSE IF Len(parts) = 1 THEN parts[1]
    ELSE parts[1] \o sep \o Join(Tail(parts), sep)

ContainsAny(s, chars) == \E i \in 1..Len(s) : s[i] \in chars

Contains(s, sub) == Index(s, sub) >= 0

\* strings.EqualFold for ASCII text
EqualFold(s, t) == Len(s) = Len(t) /\ \A i \in 1..Len(s) : Lower(s[i]) = Lower(t[i])

(***************************************************************************)
(* Decimal digit strings.  An int64 or a float64 is carried as the decimal *)
(* text strconv prints for it, so that the 64-bit range is decided on the  *)
(* digits and no model integer ever holds a value of the program.          *)
(***************************************************************************)
RECURSIVE TakeWhile(_, _)
TakeWhile(s, chars) ==
    IF s # <<>> /\ Head(s) \in chars THEN <<Head(s)>> \o TakeWhile(Tail(s), chars)
    ELSE <<>>

DropN(s, n) == SubSeq(s, n + 1, Len(s))

RECURSIVE Zeros(_)
Zeros(n) == IF n <= 0 THEN <<>> ELSE <<"0">> \o Zeros(n - 1)

RECURSIVE StripLeadingZeros(_)
StripLeadingZeros(d) ==
    IF d # <<>> /\ Head(d) = "0" THEN StripLeadingZeros(Tail(d)) ELSE d

RECURSIVE StripTrailingZeros(_)
StripTrailingZeros(d) ==
    IF d # <<>> /\ d[Len(d)] = "0"
    THEN StripTrailingZeros(SubSeq(d, 1, Len(d) - 1)) ELSE d

RemoveUnderscores(s) == SelectSeq(s, LAMBDA c : c # "_")

\* a <= b for two digit strings without leading zeros
DigitsLE(a, b) ==
    \/ Len(a) < Len(b)
    \/ /\ Len(a) = Len(b)
       /\ \/ a = b
          \/ \E i \in 1..Len(a) :
                /\ DigitVal(a[i]) < DigitVal(b[i])
                /\ \A j \in 1..(i - 1) : a[j] = b[j]

\* d + 1 for a non-empty digit string
RECURSIVE IncDigits(_)
IncDigits(d) ==
    IF d = <<>> THEN <<"1">>
    ELSE IF d[Len(d)] = "9" THEN IncDigits(SubSeq(d, 1, Len(d) - 1)) \o <<"0">>
    ELSE SubSeq(d, 1, Len(d) - 1) \o <<CharOrder[CharRank(d[Len(d)]) + 1]>>

MaxInt64Mag == <<"9", "2", "2", "3", "3", "7", "2", "0", "3", "6", "8", "5", "4",
                 "7", "7", "5", "8", "0", "7">>

MinInt64Mag == <<"9", "2", "2", "3", "3", "7", "2", "0", "3", "6", "8", "5", "4",
                 "7", "7", "5", "8", "0", "8">>

\* The 17 leading digits of math.MaxFloat64 = 1.7976931348623157e308
MaxFloat64Digits == <<"1", "7", "9", "7", "6", "9", "3", "1", "3", "4", "8", "6", "2",
                      "3", "1", "5", "7">>

(***************************************************************************)
(* strconv.ParseInt(val, 10, 64): an optional sign, then decimal digits    *)
(* only (base 10 is given, so no prefix and no underscore); a magnitude    *)
(* outside the int64 range is ErrRange.                                    *)
(***************************************************************************)
ParseInt(val) ==
    LET signed == val # <<>> /\ val[1] \in {"+", "-"}
        neg    == val # <<>> /\ val[1] = "-"
        body   == IF signed THEN Tail(val) ELSE val
    IN IF body = <<>> \/ \E i \in 1..Len(body) : body[i] \notin Digits
       THEN [ok |-> FALSE, err |-> "ErrSyntax", s |-> <<>>]
       ELSE LET stripped == StripLeadingZeros(body)
                mag == IF stripped = <<>> THEN <<"0">> ELSE stripped
            IN IF ~DigitsLE(mag, IF neg THEN MinInt64Mag ELSE MaxInt64Mag)
               THEN [ok |-> FALSE, err |-> "ErrRange", s |-> <<>>]
               ELSE [ok |-> TRUE, err |-> "",
                     s |-> IF neg /\ mag # <<"0">> THEN <<"-">> \o mag ELSE mag]

(***************************************************************************)
(* strconv.ParseFloat(val, 64), for decimal literals: an optional sign,    *)
(* digits with at most one '.', at least one digit, an optional exponent   *)
(* e[+-]digits, '_' between digits, and the special values inf, infinity   *)
(* and nan in any letter case.  The float64 it returns is carried as the   *)
(* text strconv.FormatFloat(f, 'f', -1, 64) prints for it: exact up to 15  *)
(* significant digits, kept to 16 significant digits beyond (which is what *)
(* float64 holds of the literals next to the int64 range).  Hexadecimal    *)
(* literals (0x..p..) are rejected here; no document of the model has one. *)
(***************************************************************************)
\* strconv.underscoreOK, without the base prefixes
RECURSIVE UnderscoreScan(_, _)
UnderscoreScan(s, saw) ==
    IF s = <<>> THEN saw # "_"
    ELSE IF Head(s) \in Digits THEN UnderscoreScan(Tail(s), "0")
    ELSE IF Head(s) = "_" THEN saw = "0" /\ UnderscoreScan(Tail(s), "_")
    ELSE saw # "_" /\ UnderscoreScan(Tail(s), "!")

UnderscoreOK(s) ==
    UnderscoreScan(IF s # <<>> /\ s[1] \in {"+", "-"} THEN Tail(s) ELSE s, "^")

\* the exponent readFloat accumulates: it stops growing at 10000
RECURSIVE ExpVal(_, _)
ExpVal(d, e) ==
    IF d = <<>> THEN e
    ELSE ExpVal(Tail(d), IF e < 10000 THEN e * 10 + DigitVal(Head(d)) ELSE e)

\* the shortest decimal text of 0.sig * 10^dp, sig without leading or trailing zeros
FormatDecimal(neg, sig, dp) ==
    LET body == IF sig = <<>> THEN <<"0">>
                ELSE IF dp <= 0 THEN <<"0", ".">> \o Zeros(0 - dp) \o sig
                ELSE IF dp >= Len(sig) THEN sig \o Zeros(dp - Len(sig))
                ELSE SubSeq(sig, 1, dp) \o <<".">> \o SubSeq(sig, dp + 1, Len(sig))
    IN IF neg THEN <<"-">> \o body ELSE body

\* the digits float64 keeps of a decimal: [sig, dp] rounded to 16 significant digits
RoundDecimal(sig, dp) ==
    IF Len(sig) <= 16 THEN [sig |-> sig, dp |-> dp]
    ELSE LET kept == SubSeq(sig, 1, 16)
             up   == DigitVal(sig[17]) >= 5
             r    == IF up THEN IncDigits(kept) ELSE kept
         IN IF Len(r) > 16 THEN [sig |-> <<"1">>, dp |-> dp + 1]
            ELSE [sig |-> StripTrailingZeros(r), dp |-> dp]

FloatSpecial(val) ==
    LET signed == val # <<>> /\ val[1] \in {"+", "-"}
        body   == IF signed THEN Tail(val) ELSE val
        low    == [i \in 1..Len(body) |-> Lower(body[i])]
    IN IF low \in {<<"i", "n", "f">>, <<"i", "n", "f", "i", "n", "i", "t", "y">>}
       THEN [ok |-> TRUE, s |-> IF val[1] = "-" THEN <<"-", "I", "n", "f">>
                                ELSE <<"+", "I", "n", "f">>]
       ELSE IF ~signed /\ low = <<"n", "a", "n">>
       THEN [ok |-> TRUE, s |-> <<"N", "a", "N">>]
       ELSE [ok |-> FALSE, s |-> <<>>]

NumChars == Digits \cup {"_"}

SyntaxError == [ok |-> FALSE, err |-> "ErrSyntax", s |-> <<>>]

Unsigned(val) == IF val # <<>> /\ val[1] \in {"+", "-"} THEN Tail(val) ELSE val

IsNegative(val) == val # <<>> /\ val[1] = "-"

\* the float64 nearest to 0.sig * 10^dp, or ErrRange beyond math.MaxFloat64
floatInRange(neg, rd) ==
    IF /\ rd.sig # <<>>
       /\ \/ rd.dp > 309
          \/ rd.dp = 309 /\ ~DigitsLE(SubSeq(rd.sig \o Zeros(17), 1, 17), MaxFloat64Digits)
    THEN [ok |-> FALSE, err |-> "ErrRange", s |-> <<>>]
    ELSE [ok |-> TRUE, err |-> "", s |-> FormatDecimal(neg, rd.sig, rd.dp)]

\* the float64 of the mantissa digits all, its decimal point after the first dp
floatOf(neg, all, dp) ==
    floatInRange(neg, RoundDecimal(StripTrailingZeros(StripLeadingZeros(all)),
                                   dp - (Len(all) - Len(StripLeadingZeros(all)))))

\* readFloat after the 'e' and its sign: at least one digit, and nothing after
readExpDigits(neg, intD, fracD, eneg, e2) ==
    IF e2 = <<>> \/ e2[1] \notin Digits THEN SyntaxError
    ELSE IF DropN(e2, Len(TakeWhile(e2, NumChars))) # <<>> THEN SyntaxError
    ELSE floatOf(neg, intD \o fracD,
                 Len(intD) + (IF eneg THEN -1 ELSE 1)
                               * ExpVal(RemoveUnderscores(TakeWhile(e2, NumChars)), 0))

\* readFloat after the mantissa: it must hold a digit; what follows is the exponent
readExponent(neg, intD, fracD, rest) ==
    IF intD \o fracD = <<>> THEN SyntaxError
    ELSE IF rest = <<>> THEN floatOf(neg, intD \o fracD, Len(intD))
    ELSE IF Lower(rest[1]) # "e" THEN SyntaxError
    ELSE readExpDigits(neg, intD, fracD, IsNegative(Tail(rest)), Unsigned(Tail(rest)))

\* readFloat after the integer digits: an optional '.' and the digits after it
readFraction(neg, ichars, r1) ==
    IF r1 # <<>> /\ r1[1] = "."
    THEN readExponent(neg, RemoveUnderscores(ichars),
                      RemoveUnderscores(TakeWhile(Tail(r1), NumChars)),
                      DropN(r1, 1 + Len(TakeWhile(Tail(r1), NumChars))))
    ELSE readExponent(neg, RemoveUnderscores(ichars), <<>>, r1)

readFloat(neg, body) ==
    readFraction(neg, TakeWhile(body, NumChars), DropN(body, Len(TakeWhile(body, NumChars))))

ParseFloat(val) ==
    IF FloatSpecial(val).ok THEN [ok |-> TRUE, err |-> "", s |-> FloatSpecial(val).s]
    ELSE IF ~UnderscoreOK(val) THEN SyntaxError
    ELSE readFloat(IsNegative(val), Unsigned(val))

(***************************************************************************)
(* Values and errors                                                       *)
(*                                                                         *)
(* A Go value is [type, s, elems, m]: type is its dynamic Go type, read    *)
(* left to right (<<"int64">>, <<"[]", "string">>, <<"[]", "any">> for the *)
(* empty []any{}, <<"map">> for map[string]any); s is the text of a        *)
(* scalar; elems the elements of a slice; m the entries of a map.          *)
(* An error is the message constant it was made from and the bracketed     *)
(* contexts errorf added on the way up, innermost first.                   *)
(***************************************************************************)
errInvalidKey         == "invalid key format"
errInvalidFormat      == "invalid TOML format"
errInvalidTarget      == "unmarshal target must be a pointer to map[string]any"
errMissingKey         == "missing key"
errEmptyValue         == "empty value"
errInvalidString      == "invalid string format"
errInvalidNumber      == "invalid number format"
errUnterminatedString == "unterminated string"
errUnterminatedArray  == "unterminated array"
errUnterminatedEscape == "unterminated escape sequence"
errInvalidEscape      == "invalid escape sequence"
errTypeMismatch       == "type mismatch in array"
errInvalidTableHeader == "invalid table header format"
errInvalidTableName   == "invalid table name"

\* a run-time panic of the Go program (slice bounds out of range)
panicSliceBounds      == "panic: slice bounds out of range"

NoValue == [type |-> <<>>, s |-> <<>>, elems |-> <<>>, m |-> <<>>]

Scalar(t, text) == [type |-> <<t>>, s |-> text, elems |-> <<>>, m |-> <<>>]

Slice(elemType, elements) ==
    [type |-> <<"[]">> \o elemType, s |-> <<>>, elems |-> elements, m |-> <<>>]

MapValue(entries) == [type |-> <<"map">>, s |-> <<>>, elems |-> <<>>, m |-> entries]

NoError == [kind |-> "", ctx |-> <<>>]

Context(tag, n, text) == [tag |-> tag, n |-> n, s |-> text]

NewError(kind) == [kind |-> kind, ctx |-> <<>>]

\* errorf(fn, err, context): the same error with one more bracketed context
Wrap(err, c) == [kind |-> err.kind, ctx |-> Append(err.ctx, c)]

Ok(v) == [ok |-> TRUE, v |-> v, err |-> NoError]

Fail(err) == [ok |-> FALSE, v |-> NoValue, err |-> err]

(***************************************************************************)
(* The helpers of tinytoml.go                                              *)
(***************************************************************************)
\* a first-character test that lets a digit start a key
isBareKeyStartOrDigit(r) == r \in UpperLetters \/ r \in LowerLetters \/ r \in Digits \/ r = "_"

isBareKeyStart(r) == r \in UpperLetters \/ r \in LowerLetters \/ r = "_"

isBareKeyChar(r) == isBareKeyStart(r) \/ r \in Digits \/ r = "-"

isValidKey(key) ==
    /\ key # <<>>
    /\ isBareKeyStart(key[1])
    /\ \A i \in 2..Len(key) : isBareKeyChar(key[i])

BareStringSpecials == {" ", "\t", "\n", "\r", "\"", "\\", "#", "=", "[", "]"}

\* TRUE when validateBareString returns nil
validateBareString(s) == ~ContainsAny(s, BareStringSpecials)

\* [ok, parts]: ok is FALSE when splitTableKey returns errInvalidTableName
splitTableKey(key) ==
    LET parts == Split(key, <<".">>)
        bad   == {i \in 1..Len(parts) : ~isValidKey(parts[i])}
    IN IF bad = {}
       THEN [ok |-> TRUE, parts |-> parts, err |-> NoError]
       ELSE [ok |-> FALSE, parts |-> <<>>,
             err |-> Wrap(NewError(errInvalidTableName),
                          Context("part", 0, parts[CHOOSE i \in bad : \A j \in bad : i <= j]))]

(***************************************************************************)
(* The scalar and array lexers of unmarshal.go                             *)
(***************************************************************************)
RECURSIVE unescape(_, _, _)
unescape(rest, escaped, acc) ==
    IF rest = <<>>
    THEN IF escaped THEN Fail(NewError(errUnterminatedEscape))
         ELSE Ok(Scalar("string", acc))
    ELSE LET c == Head(rest)
         IN IF escaped
            THEN IF c \in {"\\", "\""} THEN unescape(Tail(rest), FALSE, Append(acc, c))
                 ELSE IF c = "t" THEN unescape(Tail(rest), FALSE, Append(acc, "\t"))
                 ELSE IF c = "n" THEN unescape(Tail(rest), FALSE, Append(acc, "\n"))
                 ELSE IF c = "r" THEN unescape(Tail(rest), FALSE, Append(acc, "\r"))
                 ELSE Fail(Wrap(NewError(errInvalidEscape), Context("char", 0, <<c>>)))
            ELSE IF c = "\\" THEN unescape(Tail(rest), TRUE, acc)
            ELSE unescape(Tail(rest), FALSE, Append(acc, c))

\* val starts with a quote.  val[1 : len(val)-1] of the one-byte value `"` is the
\* slice [1:0], which panics.
parseQuotedString(val) ==
    IF ~HasSuffix(val, <<"\"">>) THEN Fail(NewError(errUnterminatedString))
    ELSE IF Len(val) < 2 THEN Fail(NewError(panicSliceBounds))
    ELSE unescape(SubSeq(val, 2, Len(val) - 1), FALSE, <<>>)

\* the integer if ParseInt returned no error, else the float if ParseFloat did not
numberOf(i, f) ==
    IF i.ok THEN Ok(Scalar("int64", i.s))
    ELSE IF f.ok THEN Ok(Scalar("float64", f.s))
    ELSE Fail(NewError(errInvalidNumber))

parseNumber(val) == numberOf(ParseInt(val), ParseFloat(val))

RECURSIVE splitFrom(_, _, _, _, _)
splitFrom(input, i, inQuotes, current, result) ==
    IF i > Len(input)
    THEN IF current # <<>> THEN Append(result, TrimSpace(current)) ELSE result
    ELSE LET ch == input[i]
         IN IF ch = "\""
            THEN splitFrom(input, i + 1,
                           IF i = 1 \/ input[i - 1] # "\\" THEN ~inQuotes ELSE inQuotes,
                           Append(current, ch), result)
            ELSE IF ch = ","
            THEN IF ~inQuotes
                 THEN IF current # <<>>
                      THEN splitFrom(input, i + 1, inQuotes, <<>>,
                                     Append(result, TrimSpace(current)))
                      ELSE splitFrom(input, i + 1, inQuotes, current, result)
                 ELSE splitFrom(input, i + 1, inQuotes, Append(current, ch), result)
            ELSE splitFrom(input, i + 1, inQuotes, Append(current, ch), result)

splitArrayElements(input) == splitFrom(input, 1, FALSE, <<>>, <<>>)

\* an element test that lets every type through
anyAssignable(valType, elementType) == TRUE

\* reflect.TypeOf(val).AssignableTo(elementType): both are concrete dynamic types
\* (elementType is the type of a parsed value, never an interface type)
AssignableTo(valType, elementType) == valType = elementType

RECURSIVE parseValue(_)
RECURSIVE parseArray(_)
RECURSIVE parseArrayElementsFrom(_, _, _, _)

\* the loop of parseArrayElements from element i (0-based) on; acc holds result[0..i-1]
parseArrayElementsFrom(elements, i, elementType, acc) ==
    IF i >= Len(elements) THEN Ok(Slice(elementType, acc))
    ELSE LET r == parseValue(elements[i + 1])
         IN IF ~r.ok THEN Fail(Wrap(r.err, Context("element", i, <<>>)))
            ELSE IF ~AssignableTo(r.v.type, elementType)
            THEN Fail(Wrap(NewError(errTypeMismatch), Context("element", i, <<>>)))
            ELSE parseArrayElementsFrom(elements, i + 1, elementType, Append(acc, r.v))

parseArrayElements(elements, firstElem, elementType) ==
    parseArrayElementsFrom(elements, 1, elementType, <<firstElem>>)

parseArray(val) ==
    IF ~HasSuffix(val, <<"]">>) THEN Fail(NewError(errUnterminatedArray))
    ELSE IF val = <<"[", "]">> THEN Ok(Slice(<<"any">>, <<>>))
    ELSE LET content  == TrimSpace(SubSeq(val, 2, Len(val) - 1))
             elements == splitArrayElements(content)
         IN IF elements = <<>> THEN Ok(Slice(<<"any">>, <<>>))
            ELSE LET first == parseValue(elements[1])
                 IN IF ~first.ok
                    THEN Fail(Wrap(first.err, Context("array element", 0, <<>>)))
                    ELSE parseArrayElements(elements, first.v, first.v.type)

\* the end of parseValue: the number if parseNumber returned one, else a bare string
numberOrBare(val, num) ==
    IF num.ok THEN num
    ELSE IF ~validateBareString(val) THEN Fail(NewError(errInvalidString))
    ELSE Ok(Scalar("string", val))

\* parseValue after val = strings.TrimSpace(val)
parseTrimmed(val) ==
    IF val = <<>> THEN Fail(NewError(errEmptyValue))
    ELSE IF HasPrefix(val, <<"[">>) THEN parseArray(val)
    ELSE IF HasPrefix(val, <<"\"">>) THEN parseQuotedString(val)
    ELSE IF val = <<"t", "r", "u", "e">> THEN Ok(Scalar("bool", val))
    ELSE IF val = <<"f", "a", "l", "s", "e">> THEN Ok(Scalar("bool", val))
    ELSE numberOrBare(val, parseNumber(val))

parseValue(val) == parseTrimmed(TrimSpace(val))

(***************************************************************************)
(* The table tree                                                          *)
(*                                                                         *)
(* The tree of *tableGroup nodes is held as a function from the path of a  *)
(* node (the names from the root down, <<>> for the root) to the node's    *)
(* values map.  The children map of a node is the set of paths one name    *)
(* longer; a pointer to a node is its path.                                *)
(***************************************************************************)
EmptyMap == [k \in {} |-> NoValue]

\* a tree holding the root alone: newTableGroup("", nil)
NewTree == [path \in {<<>>} |-> EmptyMap]

\* current.children[part] = newTableGroup(part, current): a fresh node, with no
\* values and no children, put under the name part
newTableGroup(tree, current, part) ==
    LET path == Append(current, part)
        kept == {q \in DOMAIN tree : ~HasPrefix(q, path)}
    IN [q \in kept \cup {path} |-> IF q = path THEN EmptyMap ELSE tree[q]]

\* a turn of the loop that puts a new table group under the name whether or not
\* one is there
alwaysNew(tree, current, part) == newTableGroup(tree, current, part)

\* one turn of the navigate/create loop: the child named part if it exists, a new
\* table group otherwise
childOrNew(tree, current, part) ==
    IF Append(current, part) \in DOMAIN tree THEN tree
    ELSE newTableGroup(tree, current, part)

RECURSIVE navigate(_, _, _)
navigate(tree, current, parts) ==
    IF parts = <<>> THEN [root |-> tree, current |-> current]
    ELSE navigate(childOrNew(tree, current, Head(parts)),
                  Append(current, Head(parts)), Tail(parts))

\* current.values[key] = parsedValue
storeValue(tree, current, key, v) ==
    [tree EXCEPT ![current] =
        [k \in DOMAIN tree[current] \cup {key} |->
            IF k = key THEN v ELSE tree[current][k]]]

\* the names of the children map of the node at path
Children(tree, path) ==
    {q[Len(q)] : q \in {r \in DOMAIN tree : Len(r) = Len(path) + 1 /\ HasPrefix(r, path)}}

\* a flattening in which a value keeps its name against a child of the same name
RECURSIVE flattenValuesFirst(_, _)
flattenValuesFirst(tree, path) ==
    LET values   == tree[path]
        kids     == Children(tree, path)
        childMap == [n \in kids |-> flattenValuesFirst(tree, Append(path, n))]
        shown    == {n \in kids : DOMAIN childMap[n] # {}}
    IN [k \in DOMAIN values \cup shown |->
           IF k \in DOMAIN values THEN values[k] ELSE MapValue(childMap[k])]

\* a flattening that keeps the children whose flattened map is empty
RECURSIVE flattenAll(_, _)
flattenAll(tree, path) ==
    LET values   == tree[path]
        kids     == Children(tree, path)
        childMap == [n \in kids |-> flattenAll(tree, Append(path, n))]
    IN [k \in DOMAIN values \cup kids |->
           IF k \in kids THEN MapValue(childMap[k]) ELSE values[k]]

\* flattenTable: the values of a group, then every child whose own flattened map
\* is not empty, put under its name (over a value of the same name)
RECURSIVE flattenTable(_, _)
flattenTable(tree, path) ==
    LET values   == tree[path]
        kids     == Children(tree, path)
        childMap == [n \in kids |-> flattenTable(tree, Append(path, n))]
        shown    == {n \in kids : DOMAIN childMap[n] # {}}
    IN [k \in DOMAIN values \cup shown |->
           IF k \in shown THEN MapValue(childMap[k]) ELSE values[k]]

(***************************************************************************)
(* The line/table parser of unmarshal.go.  A parser is [root, current,     *)
(* lineNum]; a step returns [ok, p, err].                                  *)
(***************************************************************************)
Parsed(p) == [ok |-> TRUE, p |-> p, err |-> NoError]

Failed(p, err) == [ok |-> FALSE, p |-> p, err |-> err]

\* a header navigated from the table the cursor is at, as a dotted key is
fromCursor(p) == p.current

\* where the navigation of a table header starts: current := p.root
headerBase(p) == <<>>

\* parseTableHeader once the path is split: navigate or create, then p.current = current
enterTable(p, split) ==
    IF ~split.ok THEN Failed(p, split.err)
    ELSE [ok |-> TRUE, err |-> NoError,
          p |-> [lineNum |-> p.lineNum] @@ navigate(p.root, headerBase(p), split.parts)]

parseTablePath(p, tablePath) ==
    IF tablePath = <<>> THEN Failed(p, NewError(errInvalidTableHeader))
    ELSE enterTable(p, splitTableKey(tablePath))

parseTableHeader(p, line) == parseTablePath(p, TrimSpace(SubSeq(line, 2, Len(line) - 1)))

\* a dotted key navigated from the root, as a header is
fromRoot(p) == <<>>

\* where the navigation of a dotted key starts: current := p.current
dottedBase(p) == p.current

\* a parser without the first-occurrence-wins test
neverExists(tree, current, key) == FALSE

\* the first-occurrence-wins test: _, exists := current.values[key]
keyExists(tree, current, key) == key \in DOMAIN tree[current]

\* an end of parseLine that moves the cursor to the table the value is stored in
storeAndEnter(p, nav, key, parsed) ==
    IF ~parsed.ok
    THEN Failed([p EXCEPT !.root = nav.root], Wrap(parsed.err, Context("key", 0, key)))
    ELSE Parsed([p EXCEPT !.root = storeValue(nav.root, nav.current, key, parsed.v),
                          !.current = nav.current])

\* the end of parseLine: the error of parseValue, or current.values[key] = parsedValue
storeParsed(p, nav, key, parsed) ==
    IF ~parsed.ok
    THEN Failed([p EXCEPT !.root = nav.root], Wrap(parsed.err, Context("key", 0, key)))
    ELSE Parsed([p EXCEPT !.root = storeValue(nav.root, nav.current, key, parsed.v)])

\* parseLine at the table the key belongs to: an existing key is left alone and
\* its line's value text is not looked at
assignKey(p, nav, key, value) ==
    IF keyExists(nav.root, nav.current, key) THEN Parsed([p EXCEPT !.root = nav.root])
    ELSE storeParsed(p, nav, key, parseValue(value))

\* parseLine once the key is split at its dots
parseDotted(p, keyParts, value) ==
    LET bad == {i \in 1..Len(keyParts) : ~isValidKey(keyParts[i])}
    IN IF bad # {}
       THEN Failed(p, Wrap(NewError(errInvalidKey),
                           Context("part", 0, keyParts[CHOOSE i \in bad : \A j \in bad : i <= j])))
       ELSE assignKey(p, navigate(p.root, dottedBase(p), SubSeq(keyParts, 1, Len(keyParts) - 1)),
                      keyParts[Len(keyParts)], value)

parseKeyValue(p, key, value) ==
    IF key = <<>> THEN Failed(p, NewError(errMissingKey))
    ELSE parseDotted(p, Split(key, <<".">>), value)

parseLine(p, line) ==
    LET parts == SplitN2(line, <<"=">>)
    IN IF Len(parts) # 2 THEN Failed(p, NewError(errInvalidFormat))
       ELSE parseKeyValue(p, TrimSpace(parts[1]), TrimSpace(parts[2]))

\* p.lineNum++
countLine(n) == n + 1

\* the inline comment cut: strings.Index(line, " #")
commentIndex(line) == Index(line, <<" ", "#">>)

stripComment(line) ==
    IF commentIndex(line) >= 0 THEN TrimSpace(SubSeq(line, 1, commentIndex(line))) ELSE line

\* errorf(fn, err, "line N") around the error of a header or a key-value line
atLine(p, r) ==
    IF r.ok THEN r ELSE Failed(r.p, Wrap(r.err, Context("line", p.lineNum, <<>>)))

\* a content line: a table header if bracketed, a key-value pair otherwise
parseContent(p, line) ==
    IF HasPrefix(line, <<"[">>) /\ HasSuffix(line, <<"]">>)
    THEN atLine(p, parseTableHeader(p, line))
    ELSE atLine(p, parseLine(p, line))

\* the loop body after line = strings.TrimSpace(line): blank and comment lines are skipped
parseTrimmedLine(p, line) ==
    IF line = <<>> \/ HasPrefix(line, <<"#">>) THEN Parsed(p)
    ELSE parseContent(p, stripComment(line))

\* a loop body that counts a line only after the blank and comment lines are skipped
parseStepContentOnly(p, scanned) ==
    IF TrimSpace(scanned) = <<>> \/ HasPrefix(TrimSpace(scanned), <<"#">>) THEN Parsed(p)
    ELSE parseTrimmedLine([p EXCEPT !.lineNum = countLine(p.lineNum)], TrimSpace(scanned))

\* the body of the scanning loop of parse, for one scanned line
parseStep(p, scanned) ==
    parseTrimmedLine([p EXCEPT !.lineNum = countLine(p.lineNum)], TrimSpace(scanned))

\* bufio.ScanLines: the next line of the unread input (its "\n" and a "\r" before it
\* dropped) and what is left after it
dropCR(line) ==
    IF line # <<>> /\ line[Len(line)] = "\r" THEN SubSeq(line, 1, Len(line) - 1) ELSE line

ScanLine(input) ==
    LET i == Index(input, <<"\n">>)
    IN IF i >= 0 THEN [line |-> dropCR(SubSeq(input, 1, i)), rest |-> SubSeq(input, i + 2, Len(input))]
       ELSE [line |-> dropCR(input), rest |-> <<>>]

(***************************************************************************)
(* The encoder of marshal.go.  Each function returns [ok, out, err]: out   *)
(* is the text it wrote to the buffer.                                     *)
(***************************************************************************)
errNilValue    == "cannot marshal nil value"
errUnsupported == "unsupported type"
errInvalidValue == "invalid value format"

Wrote(text) == [ok |-> TRUE, out |-> text, err |-> NoError]

WriteFailed(err) == [ok |-> FALSE, out |-> <<>>, err |-> err]

\* reflect.Value.Kind() of a value
Kind(v) ==
    IF v.type = <<>> THEN "invalid"
    ELSE IF Head(v.type) = "[]" THEN "slice"
    ELSE IF Head(v.type) \in {"int", "int8", "int16", "int32", "int64"} THEN "int"
    ELSE IF Head(v.type) \in {"float32", "float64"} THEN "float"
    ELSE Head(v.type)

\* a < b in the byte order of sort.Strings
RECURSIVE StringLess(_, _)
StringLess(a, b) ==
    IF b = <<>> THEN FALSE
    ELSE IF a = <<>> THEN TRUE
    ELSE IF Head(a) = Head(b) THEN StringLess(Tail(a), Tail(b))
    ELSE CharRank(Head(a)) < CharRank(Head(b))

\* the keys of a map in ascending order: the base from which the iteration orders
\* of MapKeys are drawn
RECURSIVE KeySeq(_)
KeySeq(keys) ==
    IF keys = {} THEN <<>>
    ELSE LET least == CHOOSE k \in keys : \A o \in keys \ {k} : StringLess(k, o)
         IN <<least>> \o KeySeq(keys \ {least})

\* the orders in which one call may meet the keys of a map: the Go runtime picks
\* the order of a map iteration afresh each time
Orders == [rev : BOOLEAN, rot : 0..2]

\* v.MapKeys(): the keys of the map in the unspecified order it
MapKeys(v, it) ==
    LET asc == KeySeq(DOMAIN v.m)
        n   == Len(asc)
        rot == [i \in 1..n |-> asc[((i - 1 + it.rot) % n) + 1]]
    IN IF it.rev THEN [i \in 1..n |-> rot[n + 1 - i]] ELSE rot

\* a sort that leaves the keys as they came
unsorted(keys) == keys

\* sort.Strings(sortedKeys): the keys in ascending byte order
RECURSIVE SortStrings(_)
SortStrings(keys) ==
    IF keys = <<>> THEN <<>>
    ELSE LET rest == SortStrings(Tail(keys))
             less == SelectSeq(rest, LAMBDA k : StringLess(k, Head(keys)))
         IN less \o <<Head(keys)>> \o SubSeq(rest, Len(less) + 1, Len(rest))

needsQuotes(s) ==
    \/ s = <<>>
    \/ ContainsAny(s, BareStringSpecials)
    \/ EqualFold(s, <<"t", "r", "u", "e">>)
    \/ EqualFold(s, <<"f", "a", "l", "s", "e">>)
    \/ (Len(s) > 0 /\ (s[1] = "-" \/ s[1] \in Digits))

RECURSIVE escapeString(_)
escapeString(s) ==
    IF s = <<>> THEN <<>>
    ELSE LET r == Head(s)
         IN (IF r \in {"\"", "\\"} THEN <<"\\", r>>
             ELSE IF r = "\t" THEN <<"\\", "t">>
             ELSE IF r = "\n" THEN <<"\\", "n">>
             ELSE IF r = "\r" THEN <<"\\", "r">>
             ELSE <<r>>) \o escapeString(Tail(s))

marshalString(s) ==
    IF needsQuotes(s) THEN Wrote(<<"\"">> \o escapeString(s) \o <<"\"">>)
    ELSE Wrote(s)

\* strconv.FormatInt(i, 10) of an int64 carried as its decimal text
marshalInt(i) == Wrote(i)

\* strconv.FormatFloat(f, 'f', -1, 64) of a float64 carried as that text, with ".0"
\* added when it has no decimal point
marshalFloat(f) == IF ~Contains(f, <<".">>) THEN Wrote(f \o <<".", "0">>) ELSE Wrote(f)

\* a marshalBool that returns an error
marshalBoolFails(b) == WriteFailed(NewError(errInvalidValue))

marshalBool(b) == IF b = <<"t", "r", "u", "e">> THEN Wrote(<<"t", "r", "u", "e">>)
                  ELSE Wrote(<<"f", "a", "l", "s", "e">>)

\* v.Index(i).Type(): the static element type of the slice, the same for every i
IndexType(v, i) == Tail(v.type)

RECURSIVE marshal(_, _)
RECURSIVE marshalValue(_, _, _)
RECURSIVE marshalMap(_, _, _)
RECURSIVE marshalArray(_, _)
RECURSIVE marshalElements(_, _, _)
RECURSIVE marshalKVs(_, _, _)
RECURSIVE marshalTables(_, _, _, _, _)

\* the writing loop of marshalArray from element i (0-based) on
marshalElements(v, i, it) ==
    IF i >= Len(v.elems) THEN Wrote(<<>>)
    ELSE LET one  == marshal(v.elems[i + 1], it)
             rest == marshalElements(v, i + 1, it)
         IN IF ~one.ok THEN WriteFailed(Wrap(one.err, Context("element", i, <<>>)))
            ELSE IF ~rest.ok THEN rest
            ELSE Wrote((IF i > 0 THEN <<",", " ">> ELSE <<>>) \o one.out \o rest.out)

marshalArray(v, it) ==
    LET mixed == {i \in 1..(Len(v.elems) - 1) : IndexType(v, i) # IndexType(v, 0)}
        body  == marshalElements(v, 0, it)
    IN IF Len(v.elems) = 0 THEN Wrote(<<"[", "]">>)
       ELSE IF mixed # {}
       THEN WriteFailed(Wrap(NewError(errTypeMismatch),
                             Context("element", CHOOSE i \in mixed : \A j \in mixed : i <= j, <<>>)))
       ELSE IF ~body.ok THEN body
       ELSE Wrote(<<"[">> \o body.out \o <<"]">>)

marshal(v, it) ==
    IF Kind(v) = "map" THEN marshalMap(v, <<>>, it)
    ELSE IF Kind(v) = "slice" THEN marshalArray(v, it)
    ELSE IF Kind(v) = "string" THEN marshalString(v.s)
    ELSE IF Kind(v) = "int" THEN marshalInt(v.s)
    ELSE IF Kind(v) = "float" THEN marshalFloat(v.s)
    ELSE IF Kind(v) = "bool" THEN marshalBool(v.s)
    ELSE WriteFailed(Wrap(NewError(errUnsupported), Context("type", 0, v.type)))

marshalValue(v, path, it) ==
    IF Kind(v) = "map" THEN marshalMap(v, path, it) ELSE marshal(v, it)

\* the key = value lines of a table, in the order of keys
marshalKVs(v, keys, it) ==
    IF keys = <<>> THEN Wrote(<<>>)
    ELSE LET key  == Head(keys)
             one  == marshalValue(v.m[key], <<>>, it)
             rest == marshalKVs(v, Tail(keys), it)
         IN IF ~one.ok THEN WriteFailed(Wrap(one.err, Context("key", 0, key)))
            ELSE IF ~rest.ok THEN rest
            ELSE Wrote(key \o <<" ", "=", " ">> \o one.out \o <<"\n">> \o rest.out)

\* the sub-tables of a table, in the order of keys; empty tables are skipped
marshalTables(v, path, keys, first, it) ==
    IF keys = <<>> THEN Wrote(<<>>)
    ELSE LET key == Head(keys)
         IN IF DOMAIN v.m[key].m = {} THEN marshalTables(v, path, Tail(keys), first, it)
            ELSE LET one  == marshalValue(v.m[key], Append(path, key), it)
                     rest == marshalTables(v, path, Tail(keys), FALSE, it)
                 IN IF ~one.ok
                    THEN WriteFailed(Wrap(one.err, Context("table", 0, Join(Append(path, key), <<".">>))))
                    ELSE IF ~rest.ok THEN rest
                    ELSE Wrote((IF first THEN <<>> ELSE <<"\n">>) \o one.out \o rest.out)

\* the count lenNonEmpty returns
lenNonEmpty(v, tables) == Cardinality({k \in tables : DOMAIN v.m[k].m # {}})

\* a header written for every nested table, whatever it holds
headerAlways(path, basicKVs, tables) ==
    IF Len(path) > 0 THEN <<"[">> \o Join(path, <<".">>) \o <<"]", "\n">> ELSE <<>>

\* the header of a table: written only if the table is nested and has values or
\* is a leaf table
tableHeader(path, basicKVs, tables) ==
    IF Len(path) > 0 /\ (basicKVs # {} \/ tables = {})
    THEN <<"[">> \o Join(path, <<".">>) \o <<"]", "\n">> ELSE <<>>

marshalMap(v, path, it) ==
    LET keys       == MapKeys(v, it)
        invalid    == SelectSeq(keys, LAMBDA k : ~isValidKey(k))
        sortedKeys == SortStrings(keys)
        tables     == {k \in DOMAIN v.m : Kind(v.m[k]) = "map"}
        basicKVs   == DOMAIN v.m \ tables
        header     == tableHeader(path, basicKVs, tables)
        kvs        == marshalKVs(v, SelectSeq(sortedKeys, LAMBDA k : k \in basicKVs), it)
        gap        == IF basicKVs # {} /\ lenNonEmpty(v, tables) > 0 THEN <<"\n">> ELSE <<>>
        subs       == marshalTables(v, path, SelectSeq(sortedKeys, LAMBDA k : k \in tables), TRUE, it)
    IN IF keys = <<>> THEN Wrote(<<>>)
       ELSE IF invalid # <<>>
       THEN WriteFailed(Wrap(NewError(errInvalidKey), Context("key", 0, Head(invalid))))
       ELSE IF ~kvs.ok THEN kvs
       ELSE IF ~subs.ok THEN subs
       ELSE Wrote(header \o kvs.out \o gap \o subs.out)

\* anyToMap of a map or a struct: the map itself, or the map of the tagged fields
\* of the struct (a field [tag, v]), a nested struct as the map of its fields
RECURSIVE anyToMap(_)
anyToMap(v) ==
    IF Kind(v) = "map" THEN v
    ELSE LET tagged == {i \in 1..Len(v.elems) : v.elems[i].tag \notin {<<>>, <<"-">>}}
         IN MapValue([t \in {v.elems[i].tag : i \in tagged} |->
                LET f == v.elems[CHOOSE i \in tagged : v.elems[i].tag = t /\
                                     \A j \in tagged : v.elems[j].tag = t => j <= i].v
                IN IF Kind(f) = "struct" THEN anyToMap(f) ELSE f])

\* Marshal(v): anyToMap turns v into a map, marshalValue writes it
Marshal(v, it) ==
    IF Kind(v) = "invalid" THEN WriteFailed(NewError(errNilValue))
    ELSE IF Kind(v) \notin {"map", "struct"} THEN WriteFailed(NewError(errUnsupported))
    ELSE marshalValue(anyToMap(v), <<>>, it)

(***************************************************************************)
(* MarshalIndent of marshal_indent.go                                      *)
(***************************************************************************)
\* the loop of splitForIndent from the byte at i (1-based) on: current is the
\* element being built
RECURSIVE splitForIndentFrom(_, _, _, _, _)
splitForIndentFrom(s, i, current, depth, inQuotes) ==
    IF i > Len(s) THEN (IF Len(current) > 0 THEN <<current>> ELSE <<>>)
    ELSE IF s[i] = "\""
    THEN splitForIndentFrom(s, i + 1, Append(current, s[i]), depth,
                            IF i = 1 \/ s[i - 1] # "\\" THEN ~inQuotes ELSE inQuotes)
    ELSE IF s[i] = "["
    THEN splitForIndentFrom(s, i + 1, Append(current, s[i]),
                            IF inQuotes THEN depth ELSE depth + 1, inQuotes)
    ELSE IF s[i] = "]"
    THEN splitForIndentFrom(s, i + 1, Append(current, s[i]),
                            IF inQuotes THEN depth ELSE depth - 1, inQuotes)
    ELSE IF s[i] = "," /\ ~inQuotes /\ depth = 0
    THEN <<current>> \o splitForIndentFrom(s, i + 1, <<>>, depth, inQuotes)
    ELSE splitForIndentFrom(s, i + 1, Append(current, s[i]), depth, inQuotes)

splitForIndent(s) == splitForIndentFrom(s, 1, <<>>, 0, FALSE)

\* the lines MarshalIndent writes for the elements from element i (1-based) on
RECURSIVE indentElements(_, _)
indentElements(elements, i) ==
    IF i > Len(elements) THEN <<>>
    ELSE <<" ", " ", " ", " ">> \o TrimSpace(elements[i])
           \o (IF i < Len(elements) THEN <<",">> ELSE <<>>) \o <<"\n">>
           \o indentElements(elements, i + 1)

\* what MarshalIndent writes for one line of Marshal's output, before the "\n"
indentLine(line) ==
    LET eq        == Index(line, <<"=">>)
        key       == SubSeq(line, 1, eq + 1)
        arrayPart == TrimSpace(SubSeq(line, eq + 2, Len(line)))
    IN IF ~Contains(line, <<"=">>) THEN line
       ELSE IF HasPrefix(arrayPart, <<"[">>) /\ HasSuffix(arrayPart, <<"]">>)
                 /\ Contains(arrayPart, <<",">>)
       THEN key \o <<" ", "[", "\n">>
              \o indentElements(splitForIndent(SubSeq(arrayPart, 2, Len(arrayPart) - 1)), 1)
              \o <<"]">>
       ELSE line

\* the scanning loop of MarshalIndent over Marshal's output
RECURSIVE indentLines(_)
indentLines(text) ==
    IF text = <<>> THEN <<>>
    ELSE indentLine(ScanLine(text).line) \o <<"\n">> \o indentLines(ScanLine(text).rest)

indentResult(r) == IF ~r.ok THEN r ELSE Wrote(indentLines(r.out))

MarshalIndent(v, it) == indentResult(Marshal(v, it))

(***************************************************************************)
(* Unmarshal and Marshal as whole calls                                    *)
(***************************************************************************)
NewParser == [root |-> NewTree, current |-> <<>>, lineNum |-> 0]

\* the scanning loop of parse over the unread input
RECURSIVE parseFrom(_, _)
RECURSIVE parseRest(_, _)
\* the loop goes on unless the line returned an error
parseRest(r, rest) == IF ~r.ok THEN r ELSE parseFrom(r.p, rest)

parseFrom(p, input) ==
    IF input = <<>> THEN Parsed(p)
    ELSE parseRest(parseStep(p, ScanLine(input).line), ScanLine(input).rest)

\* what Unmarshal does once parse has returned nil: [ok, target, err]
deliver(root, target) ==
    IF Kind(target) = "map"
    THEN [ok |-> TRUE, target |-> MapValue(flattenTable(root, <<>>)), err |-> NoError]
    ELSE [ok |-> FALSE, target |-> target, err |-> NewError(errInvalidTarget)]

\* an Unmarshal that hands over what was parsed before the error
deliverPartial(root, target, err) ==
    [ok |-> FALSE, target |-> MapValue(flattenTable(root, <<>>)), err |-> err]

\* what Unmarshal does when parse has returned err: the target is not touched
reject(root, target, err) == [ok |-> FALSE, target |-> target, err |-> err]

unmarshalResult(r, target) ==
    IF r.ok THEN deliver(r.p.root, target) ELSE reject(r.p.root, target, r.err)

\* Unmarshal(data, &target): [ok, target, err]
Unmarshal(data, target) ==
    unmarshalResult(parseFrom(NewParser, data), target)

(***************************************************************************)
(* Binding into a struct: the Unmarshal of package tinytoml that hands the *)
(* flattened map to mapToAny.  A struct value is [type |-> <<"struct">>,   *)
(* elems |-> its fields in index order], a field [tag, v]: tag is its toml *)
(* tag and v the value it holds, whose type is the field's type.           *)
(***************************************************************************)
errCannotAssign == "cannot assign"

StructValue(fields) == [type |-> <<"struct">>, s |-> <<>>, elems |-> fields, m |-> <<>>]

Field(tag, v) == [tag |-> tag, v |-> v]

\* a result [ok, v, err] that failed and left v behind
Left(v, err) == [ok |-> FALSE, v |-> v, err |-> err]

IntTypes == {"int", "int8", "int16", "int32", "int64"}

\* the bits of an integer type
Width(t) == IF t = "int8" THEN 8 ELSE IF t = "int16" THEN 16 ELSE IF t = "int32" THEN 32 ELSE 64

\* strconv.Itoa of a natural number
RECURSIVE FormatNat(_)
FormatNat(n) ==
    IF n < 10 THEN <<CharOrder[n + 5]>> ELSE FormatNat(n \div 10) \o <<CharOrder[(n % 10) + 5]>>

\* the low 32 bits of a magnitude given by its digits, as two 16-bit halves
RECURSIVE Low32(_, _, _)
Low32(d, hi, lo) ==
    IF d = <<>> THEN [hi |-> hi, lo |-> lo]
    ELSE Low32(Tail(d), (hi * 10 + ((lo * 10 + DigitVal(Head(d))) \div 65536)) % 65536,
               (lo * 10 + DigitVal(Head(d))) % 65536)

\* the two's complement of 32 bits
Negate32(x) ==
    IF x.lo = 0 THEN [hi |-> (65536 - x.hi) % 65536, lo |-> 0]
    ELSE [hi |-> 65535 - x.hi, lo |-> 65536 - x.lo]

\* the decimal text of the low w bits of x read as a signed integer
SignedText(x, w) ==
    IF w = 8 THEN (IF x.lo % 256 >= 128 THEN <<"-">> \o FormatNat(256 - (x.lo % 256))
                   ELSE FormatNat(x.lo % 256))
    ELSE IF w = 16 THEN (IF x.lo >= 32768 THEN <<"-">> \o FormatNat(65536 - x.lo)
                         ELSE FormatNat(x.lo))
    ELSE IF x.hi < 32768 THEN FormatNat(x.hi * 65536 + x.lo)
    ELSE IF x.lo = 0 /\ x.hi = 32768
    THEN <<"-", "2", "1", "4", "7", "4", "8", "3", "6", "4", "8">>
    ELSE <<"-">> \o FormatNat(Negate32(x).hi * 65536 + Negate32(x).lo)

\* the conversion of an int64 to a signed integer type of w bits: the low w bits
WrapInt(text, w) ==
    IF w = 64 THEN text
    ELSE IF Head(text) = "-"
    THEN SignedText(Negate32(Low32(StripLeadingZeros(Tail(text)), 0, 0)), w)
    ELSE SignedText(Low32(text, 0, 0), w)

\* the conversion of a float64 to int64: the fraction is cut (the result for an
\* infinity or a NaN is what amd64 gives)
Truncate(f) ==
    LET whole == IF Contains(f, <<".">>) THEN SubSeq(f, 1, Index(f, <<".">>)) ELSE f
    IN IF f \in {<<"+", "I", "n", "f">>, <<"-", "I", "n", "f">>, <<"N", "a", "N">>}
       THEN <<"-">> \o MinInt64Mag
       ELSE IF whole \in {<<"-", "0">>, <<"0">>} THEN <<"0">>
       ELSE whole

\* string(rune(i)): the one-character string of the code point i, written for
\* the ASCII digits and letters; <<"U", "+">> and the digits stand for any other
RuneString(text) ==
    LET n == IF Len(text) <= 3 /\ Head(text) # "-" THEN Low32(text, 0, 0).lo ELSE 0
    IN IF n \in 48..57 THEN <<CharOrder[n - 43]>>
       ELSE IF n \in 65..90 THEN <<CharOrder[n - 50]>>
       ELSE IF n \in 97..122 THEN <<CharOrder[n - 55]>>
       ELSE <<"U", "+">> \o text

\* reflect.Type.ConvertibleTo between the types of parsed values and of fields:
\* numbers convert to numbers, integers to strings, every type to itself
ConvertibleTo(valType, fieldType) ==
    \/ valType = fieldType
    \/ /\ Len(valType) = 1
       /\ Len(fieldType) = 1
       /\ \/ Head(valType) \in IntTypes \cup {"float64"} /\ Head(fieldType) \in IntTypes \cup {"float64"}
          \/ Head(valType) \in IntTypes /\ Head(fieldType) = "string"

\* reflect.Value.Convert
Convert(v, fieldType) ==
    IF Kind(v) = "int" /\ Head(fieldType) \in IntTypes
    THEN Scalar(Head(fieldType), WrapInt(v.s, Width(Head(fieldType))))
    ELSE IF Kind(v) = "float" /\ Head(fieldType) \in IntTypes
    THEN Scalar(Head(fieldType), WrapInt(Truncate(v.s), Width(Head(fieldType))))
    ELSE IF Kind(v) = "int" /\ Head(fieldType) = "string"
    THEN Scalar("string", RuneString(v.s))
    ELSE Scalar(Head(fieldType), v.s)

\* the zero value reflect.MakeSlice puts at each index
ZeroOf(type) == [type |-> type, s |-> <<>>, elems |-> <<>>, m |-> <<>>]

RECURSIVE mapToAny(_, _)
RECURSIVE setValue(_, _)
RECURSIVE setElements(_, _, _, _)
RECURSIVE bindFields(_, _, _)
RECURSIVE bindField(_, _)

\* the slice loop of setValue from element i (1-based) on; done holds the elements set
setElements(field, value, i, done) ==
    IF i > Len(value.elems) THEN Ok(Slice(Tail(field.type), done))
    ELSE LET r == setValue(ZeroOf(Tail(field.type)), value.elems[i])
         IN IF ~r.ok THEN Left(field, r.err)
            ELSE setElements(field, value, i + 1, Append(done, r.v))

\* setValue(field, value): [ok, v, err], v the value the field holds afterwards
setValue(field, value) ==
    IF value = NoValue THEN Ok(field)
    ELSE IF Kind(field) = "struct"
    THEN (IF Kind(value) = "map" THEN mapToAny(value.m, field)
          ELSE Left(field, NewError(errUnsupported)))
    ELSE IF Kind(field) = "slice"
    THEN (IF Kind(value) # "slice" THEN Left(field, NewError(errUnsupported))
          ELSE setElements(field, value, 1, <<>>))
    ELSE IF AssignableTo(value.type, field.type) THEN Ok(value)
    ELSE IF ConvertibleTo(value.type, field.type) THEN Ok(Convert(value, field.type))
    ELSE Left(field, Wrap(NewError(errCannotAssign), Context("type", 0, value.type \o field.type)))

\* a turn of the field loop that returns errMissingKey for an absent key
bindFieldRequired(data, fld) ==
    IF fld.tag \notin DOMAIN data THEN Left(fld.v, NewError(errMissingKey))
    ELSE setValue(fld.v, data[fld.tag])

\* one turn of the field loop of mapToAny: [ok, v, err], v what the field holds
\* afterwards
bindField(data, fld) ==
    IF fld.tag \in {<<>>, <<"-">>} THEN Ok(fld.v)
    ELSE IF fld.tag \notin DOMAIN data THEN Ok(fld.v)
    ELSE IF Kind(fld.v) = "struct"
    THEN (IF Kind(data[fld.tag]) = "map" THEN mapToAny(data[fld.tag].m, fld.v) ELSE Ok(fld.v))
    ELSE setValue(fld.v, data[fld.tag])

\* the field loop of mapToAny from field i (1-based) on: what a field was set to
\* stays when a later field fails
bindFields(data, val, i) ==
    IF i > Len(val.elems) THEN Ok(val)
    ELSE LET r == bindField(data, val.elems[i])
         IN IF ~r.ok THEN Left([val EXCEPT !.elems[i].v = r.v], r.err)
            ELSE bindFields(data, [val EXCEPT !.elems[i].v = r.v], i + 1)

\* mapToAny(data, &val): [ok, v, err], v what val holds afterwards
mapToAny(data, val) ==
    IF Kind(val) = "map"
    THEN Ok(MapValue([k \in DOMAIN data \cup DOMAIN val.m |->
                         IF k \in DOMAIN data THEN data[k] ELSE val.m[k]]))
    ELSE IF Kind(val) = "struct" THEN bindFields(data, val, 1)
    ELSE Left(val, NewError(errInvalidTarget))

\* what this Unmarshal does once parse has returned nil
bind(tree, val) == mapToAny(flattenTable(tree, <<>>), val)

(***************************************************************************)
(* The documents of the model                                              *)
(***************************************************************************)
MaxLines == 3

MaxElems == 3

\* lines about tables and keys: a header, duplicates, a dotted key, a comment, a
\* blank line, a bad key
TableLines ==
    {<<"[", "s", "]">>,   \* '[s]'
      <<"a", " ", "=", " ", "1">>,   \* 'a = 1'
      <<"a", " ", "=", " ", "2">>,   \* 'a = 2'
      <<"b", " ", "=", " ", "2">>,   \* 'b = 2'
      <<"s", ".", "a", " ", "=", " ", "1">>,   \* 's.a = 1'
      <<"#", " ", "n", "o", "t", "e">>,   \* '# note'
      <<>>,   \* a blank line
      <<"1", "a", " ", "=", " ", "1">>   \* '1a = 1'
    }

\* value texts: integers at the int64 bounds, floats, booleans, bare and quoted
\* strings, an inline comment
ScalarTexts ==
    {<<"1">>,   \* '1'
      <<"-", "2">>,   \* '-2'
      <<"+", "5">>,   \* '+5'
      <<"0", "0", "7">>,   \* '007'
      <<"9", "2", "2", "3", "3", "7", "2", "0", "3", "6", "8", "5", "4", "7", "7", "5", "8", "0", "7">>,   \* '9223372036854775807'
      <<"9", "2", "2", "3", "3", "7", "2", "0", "3", "6", "8", "5", "4", "7", "7", "5", "8", "0", "8">>,   \* '9223372036854775808'
      <<"-", "9", "2", "2", "3", "3", "7", "2", "0", "3", "6", "8", "5", "4", "7", "7", "5", "8", "0", "8">>,   \* '-9223372036854775808'
      <<"-", "9", "2", "2", "3", "3", "7", "2", "0", "3", "6", "8", "5", "4", "7", "7", "5", "8", "0", "9">>,   \* '-9223372036854775809'
      <<"2", ".", "5">>,   \* '2.5'
      <<"1", "e", "2">>,   \* '1e2'
      <<"i", "n", "f">>,   \* 'inf'
      <<"1", ".", "2", ".", "3">>,   \* '1.2.3'
      <<"t", "r", "u", "e">>,   \* 'true'
      <<"x">>,   \* 'x'
      <<"1", " ", "#", " ", "c">>,   \* '1 # c'
      <<"\"", "x", "\"">>,   \* '"x"'
      <<"\"", "\"">>,   \* '""'
      <<"\"", "a", " ", "b", "\"">>,   \* '"a b"'
      <<"\"", "a", " ", "#", "b", "\"">>,   \* '"a #b"'
      <<"\"", "+", "5", "\"">>,   \* '"+5"'
      <<"\"", "t", "r", "u", "e", "\"">>,   \* '"true"'
      <<"\"", "a", "\\", "\"", "b", "\"">>,   \* '"a\\"b"'
      <<"\"", "a", "\\", "t", "b", "\"">>,   \* '"a\\tb"'
      <<"\"", "a", "\\", "q", "b", "\"">>,   \* '"a\\qb"'
      <<"\"", "a", "b">>,   \* '"ab'
      <<"\"">>,   \* '"'
      <<"a", " ", "b">>   \* 'a b'
    }

\* the element texts array literals are made of
ElemTexts ==
    {<<"1">>,   \* '1'
      <<"2", ".", "5">>,   \* '2.5'
      <<"\"", "x", "\"">>,   \* '"x"'
      <<"\"", "a", ",", "b", "\"">>,   \* '"a,b"'
      <<"t", "r", "u", "e">>,   \* 'true'
      <<"[", "1", "]">>,   \* '[1]'
      <<"[", "]">>   \* '[]'
    }

\* the array literals of at most n elements, elements separated by ", "
RECURSIVE ElemLists(_)
ElemLists(n) ==
    IF n = 0 THEN {<<>>}
    ELSE LET shorter == ElemLists(n - 1)
         IN shorter \cup {Append(l, e) : l \in {x \in shorter : Len(x) = n - 1}, e \in ElemTexts}

ArrayTexts == {<<"[">> \o Join(l, <<",", " ">>) \o <<"]">> : l \in ElemLists(MaxElems)}

\* more value texts: an array of arrays of two elements, a string whose closing
\* quote is escaped, a float without fraction digits, bare text holding `,`, `=`,
\* `#` and `[`, and no text at all
MoreTexts ==
    {<<"[", "[", "1", ",", " ", "2", "]", ",", " ", "[", "3", ",", " ", "4", "]", "]">>,   \* '[[1, 2], [3, 4]]'
      <<"\"", "a", "\\", "\"">>,   \* '"a\\"'
      <<"1", "2", "3", ".">>,   \* '123.'
      <<"n", "a", "n">>,   \* 'nan'
      <<"a", ",", "b">>,   \* 'a,b'
      <<"a", "=", "b">>,   \* 'a=b'
      <<"a", "#", "b">>,   \* 'a#b'
      <<"a", "[", "b">>,   \* 'a[b'
      <<>>   \* the empty text
    }

ValueTexts == ScalarTexts \cup ArrayTexts \cup MoreTexts

\* the documents of at most n lines of a pool, every line ended by "\n"
RECURSIVE DocsOf(_, _)
DocsOf(pool, n) ==
    IF n = 0 THEN {<<>>}
    ELSE LET shorter == DocsOf(pool, n - 1)
         IN shorter \cup {d \o l \o <<"\n">> : d \in shorter, l \in pool}

\* two longer documents: a table re-opened after a key, and a malformed line
\* after a comment and a blank line, with a line after it
LongerDocs ==
    {<<"[", "s", "]", "\n", "a", " ", "=", " ", "1", "\n", "[", "s", "]", "\n", "b", " ", "=", " ", "2", "\n">>,
     <<"#", " ", "n", "o", "t", "e", "\n", "\n", "1", "a", " ", "=", " ", "1", "\n", "a", " ", "=", " ", "1", "\n">>}

TableDocs == DocsOf(TableLines, MaxLines) \cup LongerDocs

\* lines about nested tables: headers of one and two names, keys of the same
\* names, a dotted key
NestLines ==
    {<<"[", "a", "]">>,   \* '[a]'
      <<"[", "b", "]">>,   \* '[b]'
      <<"[", "a", ".", "b", "]">>,   \* '[a.b]'
      <<"a", " ", "=", " ", "1">>,   \* 'a = 1'
      <<"b", " ", "=", " ", "2">>,   \* 'b = 2'
      <<"a", ".", "b", " ", "=", " ", "1">>   \* 'a.b = 1'
    }

NestDocs == DocsOf(NestLines, MaxLines)

\* `v = 1` and a line end: the line some value documents start with
FirstLine == <<"v", " ", "=", " ", "1", "\n">>

KeyV == <<"v", " ", "=", " ">>

\* one line `v = text`, alone or after the line `v = 1`, not ended by "\n"
ValueDocs == {pre \o KeyV \o t : pre \in {<<>>, FirstLine}, t \in ValueTexts}

\* key and table-name texts, well formed and not
KeyTexts ==
    {<<"a">>,   \* 'a'
      <<"_", "a">>,   \* '_a'
      <<"a", "-", "1">>,   \* 'a-1'
      <<"A", "_", "b">>,   \* 'A_b'
      <<"a", ".", "b">>,   \* 'a.b'
      <<"1", "a">>,   \* '1a'
      <<"-", "a">>,   \* '-a'
      <<"a", ".", ".", "b">>,   \* 'a..b'
      <<".", "a">>,   \* '.a'
      <<"a", ".">>,   \* 'a.'
      <<"a", " ", "b">>,   \* 'a b'
      <<"a", "$">>,   \* 'a$'
      <<>>   \* the empty text
    }

\* ` = 1` and a line end, and the line `a = 1`
Assign1 == <<" ", "=", " ", "1", "\n">>

LineA1 == <<"a", " ", "=", " ", "1", "\n">>

\* one line `K = 1`, or the header `[K]` and the line `a = 1`
KeyDocs == {k \o Assign1 : k \in KeyTexts}
             \cup {<<"[">> \o k \o <<"]", "\n">> \o LineA1 : k \in KeyTexts}

\* what the caller's map holds before the call: {old: 7}
PriorMap == MapValue([k \in {<<"o", "l", "d">>} |-> Scalar("int64", <<"7">>)])

\* a target that is no *map[string]any: a *string
PriorString == Scalar("string", <<"s">>)

(***************************************************************************)
(* The state machine: one call of Unmarshal on data, line by line, then    *)
(* Marshal of the map it delivered, then Unmarshal of that output.         *)
(***************************************************************************)
VARIABLES
    data,      \* the document given to Unmarshal
    prior,     \* what the target held when Unmarshal was called
    target,    \* the caller's target
    unread,    \* the input the scanner has not yet returned
    root,      \* p.root
    current,   \* p.current
    lineNum,   \* p.lineNum
    pc,        \* "parse", "done", "failed", "panicked", "marshaled", "marshalFailed", "verified"
    err,       \* the error Unmarshal returned
    out,       \* what Marshal returned: [ok, out, err]
    back,      \* what Unmarshal of Marshal's output returned: [ok, target, err]
    outs,      \* what the repeated calls of Marshal on the target returned
    indents    \* what the repeated calls of MarshalIndent on the target returned

vars == <<data, prior, target, unread, root, current, lineNum, pc, err, out, back, outs, indents>>

NoOutput == [ok |-> FALSE, out |-> <<>>, err |-> NoError]

NoResult == [ok |-> FALSE, target |-> NoValue, err |-> NoError]

Start(d, t) ==
    /\ data = d
    /\ prior = t
    /\ target = t
    /\ unread = d
    /\ root = NewTree
    /\ current = <<>>
    /\ lineNum = 0
    /\ pc = "parse"
    /\ err = NoError
    /\ out = NoOutput
    /\ back = NoResult
    /\ outs = {}
    /\ indents = {}

Init ==
    \E d \in TableDocs \cup NestDocs \cup ValueDocs \cup KeyDocs, t \in {PriorMap, PriorString} :
        /\ t = PriorString => d \in ValueDocs /\ Len(d) <= 6
        /\ Start(d, t)

\* one turn of the loop of parse: scan a line and process it; an error ends
\* parse and Unmarshal, which returns it
ParseNextLine ==
    /\ pc = "parse"
    /\ unread # <<>>
    /\ \E sc \in {ScanLine(unread)} :
       \E r \in {parseStep([root |-> root, current |-> current, lineNum |-> lineNum], sc.line)} :
       \E u \in {reject(r.p.root, target, r.err)} :
          /\ unread' = sc.rest
          /\ root' = r.p.root
          /\ current' = r.p.current
          /\ lineNum' = r.p.lineNum
          /\ pc' = IF r.ok THEN "parse"
                   ELSE IF r.err.kind = panicSliceBounds THEN "panicked" ELSE "failed"
          /\ err' = IF r.ok THEN err ELSE u.err
          /\ target' = IF r.ok THEN target ELSE u.target
    /\ UNCHANGED <<data, prior, out, back, outs, indents>>

\* the scanner is at the end of the input: parse returns nil and Unmarshal
\* flattens the tree into the target
UnmarshalReturn ==
    /\ pc = "parse"
    /\ unread = <<>>
    /\ \E u \in {deliver(root, target)} :
          /\ target' = u.target
          /\ err' = u.err
          /\ pc' = IF u.ok THEN "done" ELSE "failed"
    /\ UNCHANGED <<data, prior, unread, root, current, lineNum, out, back, outs, indents>>

\* Marshal of the map Unmarshal delivered
MarshalResult ==
    /\ pc = "done"
    /\ \E it \in Orders : out' = Marshal(target, it)
    /\ pc' = IF out'.ok THEN "marshaled" ELSE "marshalFailed"
    /\ UNCHANGED <<data, prior, target, unread, root, current, lineNum, err, back, outs, indents>>

\* Unmarshal of Marshal's output into a fresh map
UnmarshalOutput ==
    /\ pc = "marshaled"
    /\ back' = Unmarshal(out.out, MapValue(EmptyMap))
    /\ pc' = "verified"
    /\ UNCHANGED <<data, prior, target, unread, root, current, lineNum, err, out, outs, indents>>

Next == ParseNextLine \/ UnmarshalReturn \/ MarshalResult \/ UnmarshalOutput

Spec == Init /\ [][Next]_vars

(***************************************************************************)
(* The encoder called directly: Marshal and MarshalIndent, any number of   *)
(* times, on a value the caller built or on the map Unmarshal delivered.   *)
(***************************************************************************)
\* the values Marshal and MarshalIndent are called with directly: maps of strings,
\* floats, integers, unsupported kinds, invalid keys, several keys and tables,
\* slices of a concrete and of an interface element type
EncValues ==
    {MapValue(<<"k">> :> Scalar("string", <<"x">>)),   \* {k: "x"}
     MapValue(<<"k">> :> Scalar("string", <<>>)),   \* {k: "the empty string"}
     MapValue(<<"k">> :> Scalar("string", <<"a", " ", "b">>)),   \* {k: "a b"}
     MapValue(<<"k">> :> Scalar("string", <<"t", "r", "u", "e">>)),   \* {k: "true"}
     MapValue(<<"k">> :> Scalar("string", <<"T", "R", "U", "E">>)),   \* {k: "TRUE"}
     MapValue(<<"k">> :> Scalar("string", <<"-", "5">>)),   \* {k: "-5"}
     MapValue(<<"k">> :> Scalar("string", <<"5", "x">>)),   \* {k: "5x"}
     MapValue(<<"k">> :> Scalar("string", <<"+", "5">>)),   \* {k: "+5"}
     MapValue(<<"k">> :> Scalar("string", <<"i", "n", "f">>)),   \* {k: "inf"}
     MapValue(<<"k">> :> Scalar("string", <<"a", ".", "b">>)),   \* {k: "a.b"}
     MapValue(<<"k">> :> Scalar("string", <<"a", ",", "b">>)),   \* {k: "a,b"}
     MapValue(<<"k">> :> Scalar("string", <<"a", "_", "b", "-", "c">>)),   \* {k: "a_b-c"}
     MapValue(<<"k">> :> Scalar("string", <<"a", "\"", "b">>)),   \* {k: "a"b"}
     MapValue(<<"k">> :> Scalar("string", <<"a", "\\">>)),   \* {k: "a\ (ends with a backslash)"}
     MapValue(<<"k">> :> Scalar("string", <<"a", "\t", "b">>)),   \* {k: "a<TAB>b"}
     MapValue(<<"k">> :> Scalar("string", <<"a", "$">>)),   \* {k: "a$"}
     MapValue(<<"k">> :> Scalar("float64", <<"4", "2">>)),   \* {k: float64 42}
     MapValue(<<"k">> :> Scalar("float64", <<"2", ".", "5">>)),   \* {k: float64 2.5}
     MapValue(<<"k">> :> Scalar("float64", <<"-", "0", ".", "0", "0", "1">>)),   \* {k: float64 -0.001}
     MapValue(<<"k">> :> Scalar("float64", <<"1", "0", "0", "0", "0", "0", "0", "0", "0", "0", "0", "0", "0", "0", "0", "0", "0", "0", "0", "0", "0", "0", "0", "0">>)),   \* {k: float64 100000000000000000000000}
     MapValue(<<"k">> :> Scalar("float64", <<"+", "I", "n", "f">>)),   \* {k: float64 +Inf}
     MapValue(<<"k">> :> Scalar("float64", <<"N", "a", "N">>)),   \* {k: float64 NaN}
     MapValue(<<"k">> :> Scalar("int64", <<"7">>)),   \* {k: 7}
     MapValue(<<"k">> :> Scalar("int8", <<"-", "7">>)),   \* {k: int8(-7)}
     MapValue(<<"k">> :> Scalar("bool", <<"t", "r", "u", "e">>)),   \* {k: true}
     MapValue(<<"k">> :> Scalar("uint", <<"7">>)),   \* {k: uint(7)}
     MapValue(<<"k">> :> Scalar("func", <<>>)),   \* {k: func(){}}
     MapValue(<<"s">> :> MapValue(<<"k">> :> Scalar("uint", <<"7">>))),   \* {s: {k: uint(7)}}
     MapValue(<<"k">> :> Slice(<<"any">>, <<Scalar("int64", <<"1">>), Scalar("func", <<>>)>>)),   \* {k: []any{1, func(){}}}
     Scalar("string", <<"x">>),   \* the string "x", no map
     NoValue,   \* nil
     MapValue(<<"a", " ", "b">> :> Scalar("int64", <<"1">>)),   \* {"a b": 1}
     MapValue((<<"a", " ", "b">> :> Scalar("int64", <<"1">>)) @@ (<<"1", "a">> :> Scalar("int64", <<"2">>)) @@ (<<"c">> :> Scalar("int64", <<"3">>))),   \* {"a b": 1, "1a": 2, c: 3}
     MapValue(<<"s">> :> MapValue(<<"a", ".", "b">> :> Scalar("int64", <<"1">>))),   \* {s: {"a.b": 1}}
     MapValue((<<"b">> :> Scalar("int64", <<"1">>)) @@ (<<"a">> :> Scalar("int64", <<"2">>)) @@ (<<"c">> :> Scalar("string", <<"x">>))),   \* {b: 1, a: 2, c: "x"}
     MapValue((<<"t">> :> MapValue(<<"a">> :> Scalar("int64", <<"1">>))) @@ (<<"s">> :> MapValue(<<"b">> :> Scalar("int64", <<"2">>))) @@ (<<"k">> :> Scalar("int64", <<"1">>))),   \* {t: {a: 1}, s: {b: 2}, k: 1}
     MapValue((<<"b">> :> MapValue((<<"y">> :> Scalar("int64", <<"1">>)) @@ (<<"x">> :> Scalar("int64", <<"2">>)))) @@ (<<"a">> :> MapValue(<<"z">> :> Slice(<<"any">>, <<>>)))),   \* {b: {y: 1, x: 2}, a: {z: []}}
     MapValue(<<"s">> :> MapValue(EmptyMap)),   \* {s: {}}
     MapValue(<<"s">> :> MapValue(<<"e">> :> MapValue(EmptyMap))),   \* {s: {e: {}}}
     MapValue((<<"a">> :> Scalar("int64", <<"1">>)) @@ (<<"s">> :> MapValue((<<"t">> :> MapValue(<<"u">> :> Scalar("int64", <<"1">>))) @@ (<<"e">> :> MapValue(EmptyMap))))),   \* {a: 1, s: {t: {u: 1}, e: {}}}
     MapValue(EmptyMap),   \* {}
     StructValue(<<Field(<<"b">>, Scalar("int8", <<"1">>)),
                   Field(<<"a">>, StructValue(<<Field(<<"k">>, Scalar("string", <<"x">>))>>)),
                   Field(<<"-">>, Scalar("string", <<"s">>)),
                   Field(<<>>, Scalar("int64", <<"9">>))>>),   \* struct{B int8 `toml:"b"`; A struct{K string `toml:"k"`} `toml:"a"`; S string `toml:"-"`; N int64}
     MapValue(<<"k">> :> Slice(<<"int64">>, <<Scalar("int64", <<"1">>)>>)),   \* {k: []int64{1}}
     MapValue(<<"k">> :> Slice(<<"int64">>, <<Scalar("int64", <<"1">>), Scalar("int64", <<"2">>)>>)),   \* {k: []int64{1, 2}}
     MapValue(<<"k">> :> Slice(<<"string">>, <<Scalar("string", <<"x">>), Scalar("string", <<"y">>), Scalar("string", <<"z">>)>>)),   \* {k: []string{"x", "y", "z"}}
     MapValue(<<"k">> :> Slice(<<"any">>, <<Scalar("int64", <<"1">>), Scalar("string", <<"x">>)>>)),   \* {k: []any{1, "x"}}
     MapValue(<<"k">> :> Slice(<<"any">>, <<Scalar("int64", <<"1">>), Scalar("int64", <<"2">>)>>)),   \* {k: []any{1, 2}}
     MapValue(<<"k">> :> Slice(<<"any">>, <<Scalar("float64", <<"1">>), Scalar("int64", <<"2">>)>>)),   \* {k: []any{1.0, 2}}
     MapValue(<<"k">> :> Slice(<<"any">>, <<Slice(<<"int64">>, <<Scalar("int64", <<"1">>)>>), Scalar("string", <<"x">>)>>)),   \* {k: []any{[]int64{1}, "x"}}
     MapValue(<<"k">> :> Slice(<<"string">>, <<Scalar("string", <<"a", ",", " ", "b">>)>>)),   \* {k: []string{"a, b"}}
     MapValue(<<"k">> :> Slice(<<"string">>, <<Scalar("string", <<"a", ",", "b">>)>>)),   \* {k: []string{"a,b"}}
     MapValue(<<"k">> :> Slice(<<"[]", "int64">>, <<Slice(<<"int64">>, <<Scalar("int64", <<"1">>), Scalar("int64", <<"2">>)>>)>>)),   \* {k: [][]int64{{1, 2}}}
     MapValue(<<"k">> :> Slice(<<"[]", "int64">>, <<Slice(<<"int64">>, <<Scalar("int64", <<"1">>), Scalar("int64", <<"2">>)>>), Slice(<<"int64">>, <<Scalar("int64", <<"3">>)>>)>>)),   \* {k: [][]int64{{1, 2}, {3}}}
     MapValue(<<"k">> :> Slice(<<"string">>, <<Scalar("string", <<"a", " ", "b">>), Scalar("string", <<"c", ",", "d">>)>>)),   \* {k: []string{"a b", "c,d"}}
     MapValue(<<"k">> :> Slice(<<"string">>, <<Scalar("string", <<"a", "\\">>), Scalar("string", <<"b">>)>>)),   \* {k: []string{"a\\", "b"}}
     MapValue(<<"k">> :> Slice(<<"string">>, <<Scalar("string", <<"a", "]">>), Scalar("string", <<"b">>)>>)),   \* {k: []string{"a]", "b"}}
     MapValue((<<"a">> :> Slice(<<"int64">>, <<Scalar("int64", <<"1">>), Scalar("int64", <<"2">>)>>)) @@ (<<"s">> :> MapValue(<<"b">> :> Slice(<<"bool">>, <<Scalar("bool", <<"t", "r", "u", "e">>), Scalar("bool", <<"f", "a", "l", "s", "e">>)>>))))}   \* {a: []int64{1, 2}, s: {b: []bool{true, false}}}

\* the documents whose trees are encoded: one line `v = text`, and the longer ones
EncDocs == {KeyV \o t : t \in ValueTexts} \cup LongerDocs

\* a value of the caller's: no Unmarshal came before (prior holds no value)
Built(v) ==
    /\ data = <<>>
    /\ prior = NoValue
    /\ target = v
    /\ unread = <<>>
    /\ root = NewTree
    /\ current = <<>>
    /\ lineNum = 0
    /\ pc = "done"
    /\ err = NoError
    /\ out = NoOutput
    /\ back = NoResult
    /\ outs = {}
    /\ indents = {}

EncInit == (\E v \in EncValues : Built(v)) \/ (\E d \in EncDocs : Start(d, PriorMap))

\* one more call of Marshal on the target; the runtime picks the map order
MarshalCall ==
    /\ pc = "done"
    /\ \E it \in Orders : outs' = outs \cup {Marshal(target, it)}
    /\ UNCHANGED <<data, prior, target, unread, root, current, lineNum, pc, err, out, back, indents>>

\* one more call of MarshalIndent on the target
MarshalIndentCall ==
    /\ pc = "done"
    /\ \E it \in Orders : indents' = indents \cup {MarshalIndent(target, it)}
    /\ UNCHANGED <<data, prior, target, unread, root, current, lineNum, pc, err, out, back, outs>>

EncNext == ParseNextLine \/ UnmarshalReturn \/ MarshalCall \/ MarshalIndentCall

EncSpec == EncInit /\ [][EncNext]_vars

(***************************************************************************)
(* Properties                                                              *)
(***************************************************************************)
\* the line with a key that starts with a digit
BadKeyLine == <<"1", "a", " ", "=", " ", "1">>

\* C1 (round trip): whenever Unmarshal has parsed a document into a map T,
\* Marshal(T) succeeds and Unmarshal of Marshal's output succeeds with a map
\* equal to T: the same keys, the same nesting, the same type and value per key.
C1_RoundTrip ==
    /\ pc # "marshalFailed"
    /\ pc = "verified" => back.ok /\ back.target = target

C4_DottedKeyEquivalence ==
    /\ pc = "parse" =>
         \A prefix \in {<<(<<"s">>)>>, <<(<<"t">>)>>, <<(<<"s">>), (<<"t">>)>>},
            k \in {<<"a">>, <<"c">>} :
            LET p      == [root |-> root, current |-> current, lineNum |-> lineNum]
                value  == <<" ", "=", " ", "t", "r", "u", "e">>
                dotted == parseLine(p, Join(Append(prefix, k), <<".">>) \o value)
                header == parseTableHeader(p, <<"[">> \o Join(current \o prefix, <<".">>)
                                                  \o <<"]">>)
                plain  == parseLine(header.p, k \o value)
            IN dotted.ok /\ header.ok /\ plain.ok /\ dotted.p.root = plain.p.root
    /\ (pc = "done" /\ data \in {<<"s", ".", "a", " ", "=", " ", "1", "\n">>, <<"[", "s", "]", "\n", "a", " ", "=", " ", "1", "\n">>})
         => target = MapValue(<<"s">> :> MapValue(<<"a">> :> Scalar("int64", <<"1">>)))

C4_Witness ==
    /\ pc = "done"
    /\ data = <<"[", "s", "]", "\n", "s", ".", "a", " ", "=", " ", "1", "\n">>
    /\ <<(<<"s">>), (<<"s">>)>> \in DOMAIN root
    /\ root[<<(<<"s">>), (<<"s">>)>>] = (<<"a">> :> Scalar("int64", <<"1">>))

C6_IntegerBound ==
    LET text    == DropN(data, Len(KeyV))
        digits  == IF text[1] = "-" THEN Tail(text) ELSE text
        limit   == IF text[1] = "-" THEN <<"9", "2", "2", "3", "3", "7", "2", "0", "3", "6", "8", "5", "4", "7", "7", "5", "8", "0", "8">>
                   ELSE <<"9", "2", "2", "3", "3", "7", "2", "0", "3", "6", "8", "5", "4", "7", "7", "5", "8", "0", "7">>
        inRange == DigitsLE(StripLeadingZeros(digits), limit)
    IN (/\ pc # "parse"
        /\ prior = PriorMap
        /\ data \in ValueDocs
        /\ HasPrefix(data, KeyV)
        /\ text # <<>>
        /\ digits # <<>>
        /\ \A i \in 1..Len(digits) : digits[i] \in Digits)
       => IF inRange
          THEN /\ pc \notin {"failed", "panicked"}
               /\ target.m[<<"v">>].type = <<"int64">>
          ELSE /\ pc = "failed"
               /\ <<"v">> \notin DOMAIN root[<<>>]

C8_NoPartialResults == pc = "failed" => target = prior

C8_Witness ==
    /\ pc = "failed"
    /\ lineNum > 1
    /\ DOMAIN root[<<>>] # {}
    /\ target = PriorMap

\* C9 (key invariant): after a successful parse every key and every table name,
\* at every depth of the tree and of the delivered map, matches
\* [A-Za-z_][A-Za-z0-9_-]*; a key-value line or a header with a segment that
\* does not match makes the parse fail.
C9_KeyInvariant ==
    LET letters    == UpperLetters \cup LowerLetters
        matches(k) == /\ k # <<>>
                      /\ k[1] \in letters \cup {"_"}
                      /\ \A i \in 2..Len(k) : k[i] \in letters \cup Digits \cup {"_", "-"}
        RECURSIVE keysOK(_)
        keysOK(v)  == \A k \in DOMAIN v.m :
                         matches(k) /\ (v.m[k].type = <<"map">> => keysOK(v.m[k]))
        succeeded  == pc \in {"done", "marshaled", "marshalFailed", "verified"}
        segments(k) == Split(k, <<".">>)
    IN /\ succeeded =>
            /\ keysOK(target)
            /\ \A path \in DOMAIN root :
                  /\ \A i \in 1..Len(path) : matches(path[i])
                  /\ \A k \in DOMAIN root[path] : matches(k)
       /\ \A k \in KeyTexts :
            (/\ pc # "parse"
             /\ data \in {k \o Assign1, <<"[">> \o k \o <<"]", "\n">> \o LineA1}
             /\ \E i \in 1..Len(segments(k)) : ~matches(segments(k)[i]))
            => pc = "failed"
       /\ data \in TableDocs /\ Index(data, BadKeyLine) >= 0 => ~succeeded

C9_Witness ==
    /\ pc = "done"
    /\ data = <<"[", "a", ".", "b", "]", "\n", "a", " ", "=", " ", "1", "\n">>
    /\ <<(<<"a">>), (<<"b">>)>> \in DOMAIN root
    /\ target.m[<<"a">>].m[<<"b">>].m[<<"a">>] = Scalar("int64", <<"1">>)

\* C10 (inline comments): a `#` after a space cuts the rest of the line when it is
\* outside a quoted string (`v = 1 # c` is the integer 1), and is kept when it is
\* inside one (`v = "a #b"` is the string `a #b`).
C10_InlineComments ==
    /\ (pc # "parse" /\ data = KeyV \o <<"1", " ", "#", " ", "c">>)
         => /\ pc \notin {"failed", "panicked"}
            /\ target.m[<<"v">>] = Scalar("int64", <<"1">>)
    /\ (pc # "parse" /\ data = KeyV \o <<"\"", "a", " ", "#", "b", "\"">>)
         => /\ pc \notin {"failed", "panicked"}
            /\ target.m[<<"v">>] = Scalar("string", <<"a", " ", "#", "b">>)

(***************************************************************************)
(* Unmarshal into a struct: parse line by line, then mapToAny binds the    *)
(* flattened map into the fields of the target.                            *)
(***************************************************************************)
MaxBindLines == 2

\* lines for the fields of BindTarget: values that fit their field, integers too
\* wide for it, values of another kind, a key no field has
BindLines ==
    {<<"n", "a", "m", "e", " ", "=", " ", "x">>,   \* 'name = x'
      <<"n", "a", "m", "e", " ", "=", " ", "6", "5">>,   \* 'name = 65'
      <<"n", "a", "m", "e", " ", "=", " ", "[", "1", "]">>,   \* 'name = [1]'
      <<"p", "o", "r", "t", " ", "=", " ", "5">>,   \* 'port = 5'
      <<"p", "o", "r", "t", " ", "=", " ", "3", "0", "0">>,   \* 'port = 300'
      <<"p", "o", "r", "t", " ", "=", " ", "-", "1", "2", "9">>,   \* 'port = -129'
      <<"p", "o", "r", "t", " ", "=", " ", "2", ".", "5">>,   \* 'port = 2.5'
      <<"p", "o", "r", "t", " ", "=", " ", "\"", "x", "\"">>,   \* 'port = "x"'
      <<"b", "i", "g", " ", "=", " ", "7", "0", "0", "0", "0">>,   \* 'big = 70000'
      <<"r", "a", "t", "e", " ", "=", " ", "1">>,   \* 'rate = 1'
      <<"o", "n", " ", "=", " ", "t", "r", "u", "e">>,   \* 'on = true'
      <<"t", "a", "g", "s", " ", "=", " ", "[", "\"", "a", "\"", ",", " ", "\"", "b", "\"", "]">>,   \* 'tags = ["a", "b"]'
      <<"t", "a", "g", "s", " ", "=", " ", "[", "6", "5", "]">>,   \* 'tags = [65]'
      <<"t", "a", "g", "s", " ", "=", " ", "x">>,   \* 'tags = x'
      <<"s", "u", "b", " ", "=", " ", "1">>,   \* 'sub = 1'
      <<"s", "u", "b", ".", "h", "o", "s", "t", " ", "=", " ", "y">>,   \* 'sub.host = y'
      <<"s", "u", "b", ".", "n", " ", "=", " ", "2", "1", "4", "7", "4", "8", "3", "6", "4", "8">>,   \* 'sub.n = 2147483648'
      <<"s", "u", "b", ".", "n", " ", "=", " ", "7">>,   \* 'sub.n = 7'
      <<"o", "t", "h", "e", "r", " ", "=", " ", "1">>,   \* 'other = 1'
      <<"[", "s", "u", "b", "]">>,   \* '[sub]'
      <<"n", " ", "=", " ", "-", "2", "1", "4", "7", "4", "8", "3", "6", "4", "9">>   \* 'n = -2147483649'
    }

BindDocs == DocsOf(BindLines, MaxBindLines)

\* the caller's struct, every field holding a value of the caller's:
\*   Name string `toml:"name"`; Port int8 `toml:"port"`; Big int16 `toml:"big"`;
\*   Rate float64 `toml:"rate"`; On bool `toml:"on"`; Tags []string `toml:"tags"`;
\*   Sub struct { Host string `toml:"host"`; N int32 `toml:"n"` } `toml:"sub"`;
\*   Skip string `toml:"-"`; Count int64 (no tag)
BindTarget ==
    StructValue(<<Field(<<"n", "a", "m", "e">>, Scalar("string", <<"d", "e", "f">>)),
                  Field(<<"p", "o", "r", "t">>, Scalar("int8", <<"1">>)),
                  Field(<<"b", "i", "g">>, Scalar("int16", <<"2">>)),
                  Field(<<"r", "a", "t", "e">>, Scalar("float64", <<"0", ".", "5">>)),
                  Field(<<"o", "n">>, Scalar("bool", <<"f", "a", "l", "s", "e">>)),
                  Field(<<"t", "a", "g", "s">>, Slice(<<"string">>, <<Scalar("string", <<"t">>)>>)),
                  Field(<<"s", "u", "b">>, StructValue(<<Field(<<"h", "o", "s", "t">>, Scalar("string", <<"h">>)),
                                                         Field(<<"n">>, Scalar("int32", <<"3">>))>>)),
                  Field(<<"-">>, Scalar("string", <<"s">>)),
                  Field(<<>>, Scalar("int64", <<"9">>))>>)

BindInit == \E d \in BindDocs : Start(d, BindTarget)

\* the scanner is at the end of the input: parse returns nil and mapToAny binds
\* the flattened map into the target
BindReturn ==
    /\ pc = "parse"
    /\ unread = <<>>
    /\ \E r \in {bind(root, target)} :
          /\ target' = r.v
          /\ err' = r.err
          /\ pc' = IF r.ok THEN "bound" ELSE "bindFailed"
    /\ UNCHANGED <<data, prior, unread, root, current, lineNum, out, back, outs, indents>>

BindNext == ParseNextLine \/ BindReturn

BindSpec == BindInit /\ [][BindNext]_vars

(***************************************************************************)
(* Properties of the encoder                                               *)
(***************************************************************************)
\* the lines of an output text
OutLines(text) == Split(text, <<"\n">>)

IsHeader(line) == HasPrefix(line, <<"[">>)

IsKeyLine(line) == ~IsHeader(line) /\ Contains(line, <<" ", "=", " ">>)

\* the key of a `key = value` line
KeyOf(line) == SubSeq(line, 1, Index(line, <<" ", "=", " ">>))

\* the path of a `[a.b]` line
HeaderPath(line) == Split(SubSeq(line, 2, Len(line) - 1), <<".">>)

\* the key lines of one table, which no header line separates, ascend
KeysAscend(lines) ==
    \A i, j \in 1..Len(lines) :
        (/\ i < j
         /\ IsKeyLine(lines[i])
         /\ IsKeyLine(lines[j])
         /\ \A h \in i..j : ~IsHeader(lines[h]))
        => StringLess(KeyOf(lines[i]), KeyOf(lines[j]))

\* the headers of tables with the same parent ascend by their last name
HeadersAscend(lines) ==
    \A i, j \in 1..Len(lines) :
        (/\ i < j
         /\ IsHeader(lines[i])
         /\ IsHeader(lines[j])
         /\ Len(HeaderPath(lines[i])) = Len(HeaderPath(lines[j]))
         /\ SubSeq(HeaderPath(lines[i]), 1, Len(HeaderPath(lines[i])) - 1)
              = SubSeq(HeaderPath(lines[j]), 1, Len(HeaderPath(lines[j])) - 1))
        => StringLess(HeaderPath(lines[i])[Len(HeaderPath(lines[i]))],
                      HeaderPath(lines[j])[Len(HeaderPath(lines[j]))])

C12_DeterministicEncoding ==
    /\ \A r1, r2 \in outs : r1.ok = r2.ok /\ r1.out = r2.out
    /\ \A r1, r2 \in indents : r1.ok = r2.ok /\ r1.out = r2.out

\* Marshal and MarshalIndent have returned the text of a map with three keys, which
\* a call can meet in six orders
C12_Witness ==
    /\ \E r \in outs : r.ok /\ r.out # <<>>
    /\ \E r \in indents : r.ok /\ r.out # <<>>
    /\ Kind(target) = "map"
    /\ Cardinality(DOMAIN target.m) >= 3

\* the target is the map {k: s} of one string
OneString == Kind(target) = "map" /\ DOMAIN target.m = {<<"k">>} /\ Kind(target.m[<<"k">>]) = "string"

\* a text that reads as a number
NumericLooking(s) == ParseInt(s).ok \/ ParseFloat(s).ok

\* the strings the statement has written bare
ExpectBare(s) ==
    /\ s # <<>>
    /\ \A i \in 1..Len(s) : s[i] \in UpperLetters \cup LowerLetters \cup Digits \cup {"_", "-"}
    /\ s \notin {<<"t", "r", "u", "e">>, <<"f", "a", "l", "s", "e">>}
    /\ ~NumericLooking(s)

\* the text the statement has written for the string s
ExpectedString(s) ==
    IF ExpectBare(s) THEN s ELSE <<"\"">> \o escapeString(s) \o <<"\"">>

\* C13: Marshal of {k: s} writes `k = s` if s is non-empty, made of letters, digits,
\* '_' and '-' only, and neither true, false nor a text that reads as a number;
\* otherwise it writes s between double quotes with its special characters escaped
C13_MinimalQuoting ==
    \A r \in outs :
        OneString => r.ok /\ r.out = <<"k", " ", "=", " ">> \o ExpectedString(target.m[<<"k">>].s) \o <<"\n">>

\* the value kinds and tables
Supported == {"map", "slice", "string", "int", "float", "bool"}

\* v is or holds a value of a kind outside the five value kinds and tables
RECURSIVE HasUnsupported(_)
HasUnsupported(v) ==
    \/ Kind(v) \notin Supported
    \/ Kind(v) = "map" /\ \E k \in DOMAIN v.m : HasUnsupported(v.m[k])
    \/ Kind(v) = "slice" /\ \E i \in 1..Len(v.elems) : HasUnsupported(v.elems[i])

\* v is or holds a map with a key that is no bare key
RECURSIVE HasInvalidKey(_)
HasInvalidKey(v) ==
    \/ Kind(v) = "map" /\ \E k \in DOMAIN v.m : ~isValidKey(k) \/ HasInvalidKey(v.m[k])
    \/ Kind(v) = "slice" /\ \E i \in 1..Len(v.elems) : HasInvalidKey(v.elems[i])

\* the target is the map a successful Unmarshal delivered
ParsedTree == pc = "done" /\ prior # NoValue

BoundDoc == flattenTable(root, <<>>)

\* mapToAny has returned
Returned == pc \in {"bound", "bindFailed"}

\* every field of before whose key data does not hold is the same in after, in
\* the struct and in the structs nested in it
RECURSIVE Kept(_, _, _)
Kept(fields, before, after) ==
    \A i \in 1..Len(before.elems) :
        IF before.elems[i].tag \notin DOMAIN fields
        THEN after.elems[i] = before.elems[i]
        ELSE (Kind(before.elems[i].v) = "struct" /\ Kind(fields[before.elems[i].tag]) = "map")
                => Kept(fields[before.elems[i].tag].m, before.elems[i].v, after.elems[i].v)

\* the tags of the fields of a struct
Tags(val) == {val.elems[i].tag : i \in 1..Len(val.elems)}

\* C15: after Unmarshal into a struct, whether it returned an error or not, every
\* field whose key the document does not hold has the value it had before the
\* call, fields without a tag included, and a document that holds no key of a
\* field is bound without error
C15_MergeDefaults ==
    Returned => /\ Kept(BoundDoc, prior, target)
                /\ (Tags(prior) \cap DOMAIN BoundDoc = {} => pc = "bound" /\ target = prior)

\* Unmarshal has bound a document that holds the key of one field and not that of
\* another: the first field is written, the second is as before
C15_Witness ==
    /\ pc = "bound"
    /\ <<"p", "o", "r", "t">> \in DOMAIN BoundDoc
    /\ <<"n", "a", "m", "e">> \notin DOMAIN BoundDoc
    /\ target.elems[2] # prior.elems[2]
    /\ target.elems[1] = prior.elems[1]

\* the greatest magnitude a signed integer of w bits holds, below zero or not
MaxMag(w, neg) ==
    IF w = 8 THEN FormatNat(IF neg THEN 128 ELSE 127)
    ELSE IF w = 16 THEN FormatNat(IF neg THEN 32768 ELSE 32767)
    ELSE IF w = 32 THEN (IF neg THEN <<"2", "1", "4", "7", "4", "8", "3", "6", "4", "8">>
                         ELSE <<"2", "1", "4", "7", "4", "8", "3", "6", "4", "7">>)
    ELSE IF neg THEN MinInt64Mag ELSE MaxInt64Mag

\* the integer of this decimal text is one a signed integer of w bits holds
Fits(text, w) ==
    IF Head(text) = "-" THEN DigitsLE(Tail(text), MaxMag(w, TRUE))
    ELSE DigitsLE(text, MaxMag(w, FALSE))

\* every integer field of val whose key fields holds an int64 for was given an
\* int64 that fits it, and holds that integer
RECURSIVE NarrowedExactly(_, _)
NarrowedExactly(fields, val) ==
    \A i \in 1..Len(val.elems) :
        val.elems[i].tag \in DOMAIN fields =>
            /\ (Kind(val.elems[i].v) = "int" /\ Kind(fields[val.elems[i].tag]) = "int")
                  => /\ Fits(fields[val.elems[i].tag].s, Width(Head(val.elems[i].v.type)))
                     /\ val.elems[i].v.s = fields[val.elems[i].tag].s
            /\ (Kind(val.elems[i].v) = "struct" /\ Kind(fields[val.elems[i].tag]) = "map")
                  => NarrowedExactly(fields[val.elems[i].tag].m, val.elems[i].v)

\* C16: when Unmarshal into a struct returns no error, every int8, int16 and int32
\* field whose key holds an integer was given an integer that fits its width and
\* holds it: an integer that does not fit makes Unmarshal return an error
C16_OverflowCheckedNarrowing == pc = "bound" => NarrowedExactly(BoundDoc, target)

Numbers == {"int", "float"}

\* the kind of value goes into a field that holds fieldv: a table into a struct,
\* an array into a slice element by element, a number into a number field, a
\* string into a string field, a boolean into a boolean field
RECURSIVE Compatible(_, _)
Compatible(value, fieldv) ==
    IF Kind(fieldv) = "struct" THEN Kind(value) = "map"
    ELSE IF Kind(fieldv) = "slice"
    THEN /\ Kind(value) = "slice"
         /\ \A i \in 1..Len(value.elems) : Compatible(value.elems[i], ZeroOf(Tail(fieldv.type)))
    ELSE IF Kind(fieldv) \in Numbers THEN Kind(value) \in Numbers
    ELSE Kind(value) = Kind(fieldv)

\* every field of val whose key fields holds was given a value of its kind
RECURSIVE AllCompatible(_, _)
AllCompatible(fields, val) ==
    \A i \in 1..Len(val.elems) :
        val.elems[i].tag \in DOMAIN fields =>
            /\ Compatible(fields[val.elems[i].tag], val.elems[i].v)
            /\ Kind(val.elems[i].v) = "struct" => AllCompatible(fields[val.elems[i].tag].m, val.elems[i].v)

\* C17: when Unmarshal into a struct returns no error, every field whose key the
\* document holds was given a value of the field's kind: an array for a scalar
\* field, an integer for a string field or a scalar for a nested struct makes
\* Unmarshal return an error
C17_NoSilentCoercion == pc = "bound" => AllCompatible(BoundDoc, prior)

(***************************************************************************)
(* Properties of the encoder, continued                                    *)
(***************************************************************************)
\* the target is the map {k: a} of one slice
OneArray == Kind(target) = "map" /\ DOMAIN target.m = {<<"k">>} /\ Kind(target.m[<<"k">>]) = "slice"

\* no key of v or of a table in v holds an array of two or more elements
RECURSIVE NoLongArray(_)
NoLongArray(v) ==
    \A k \in DOMAIN v.m :
        /\ Kind(v.m[k]) = "slice" => Len(v.m[k].elems) < 2
        /\ Kind(v.m[k]) = "map" => NoLongArray(v.m[k])

\* the element lines the statement has for the elements from element i on: four
\* spaces, the element as Marshal writes it, a comma unless it is the last
RECURSIVE ElementLines(_, _)
ElementLines(elems, i) ==
    IF i > Len(elems) THEN <<>>
    ELSE <<" ", " ", " ", " ">> \o marshal(elems[i], [rev |-> FALSE, rot |-> 0]).out
           \o (IF i < Len(elems) THEN <<",">> ELSE <<>>) \o <<"\n">>
           \o ElementLines(elems, i + 1)

\* C18: MarshalIndent writes {k: a} for an array a of two or more elements as
\* `k = [`, one line per element and `]`, and writes a value in which no key holds
\* an array of two or more elements exactly as Marshal writes it
C18_IndentedMode ==
    \A ri \in indents : \A ro \in outs :
        (ri.ok /\ ro.ok /\ Kind(target) = "map") =>
            /\ NoLongArray(target) => ri.out = ro.out
            /\ (OneArray /\ Len(target.m[<<"k">>].elems) >= 2) =>
                  ri.out = <<"k", " ", "=", " ", "[", "\n">>
                             \o ElementLines(target.m[<<"k">>].elems, 1) \o <<"]", "\n">>

\* nowhere in text does a digit follow a '.'
NoFraction(text) ==
    \A i \in 1..(Len(text) - 1) : ~(text[i] = "." /\ text[i + 1] \in Digits)

\* the target is the map {k: f} of one float
OneFloat == Kind(target) = "map" /\ DOMAIN target.m = {<<"k">>} /\ Kind(target.m[<<"k">>]) = "float"

\* C19: Marshal writes the float of {k: f} with a '.' followed by a digit, and
\* Unmarshal of what it wrote gives a float for k
C19_FloatCanonicalForm ==
    \A r \in outs :
        OneFloat =>
            /\ r.ok
            /\ ~NoFraction(r.out)
            /\ Unmarshal(r.out, MapValue(EmptyMap)).ok
            /\ Kind(Unmarshal(r.out, MapValue(EmptyMap)).target.m[<<"k">>]) = "float"

\* v is or holds a slice whose elements are not all of one kind
RECURSIVE Mixed(_)
Mixed(v) ==
    \/ Kind(v) = "slice" /\ \E i, j \in 1..Len(v.elems) : Kind(v.elems[i]) # Kind(v.elems[j])
    \/ Kind(v) = "slice" /\ \E i \in 1..Len(v.elems) : Mixed(v.elems[i])
    \/ Kind(v) = "map" /\ \E k \in DOMAIN v.m : Mixed(v.m[k])

\* the 0-based index of the first element of another kind than element 0
FirstOther(v) ==
    CHOOSE i \in 1..(Len(v.elems) - 1) :
        /\ Kind(v.elems[i + 1]) # Kind(v.elems[1])
        /\ \A j \in 1..(i - 1) : Kind(v.elems[j + 1]) = Kind(v.elems[1])

\* C20: Marshal of a value that holds a slice whose elements are not all of one
\* kind, whatever the element type of the slice, returns the error 'type
\* mismatch in array' and no output; for the map {k: a} the error names the
\* index of the first element of another kind than element 0
C20_EncodeHomogeneity ==
    \A r \in outs :
        (Kind(target) = "map" /\ Mixed(target) /\ ~HasUnsupported(target) /\ ~HasInvalidKey(target)) =>
            /\ ~r.ok
            /\ r.out = <<>>
            /\ r.err.kind = errTypeMismatch
            /\ (OneArray /\ Mixed(target.m[<<"k">>]) /\ \A i \in 1..Len(target.m[<<"k">>].elems) : ~Mixed(target.m[<<"k">>].elems[i]))
                  => \E c \in 1..Len(r.err.ctx) :
                        r.err.ctx[c] = Context("element", FirstOther(target.m[<<"k">>]), <<>>)

(***************************************************************************)
(* Properties of the value lexer and of the table parser (C21 to C30),     *)
(* on the specification Spec unless said otherwise.                        *)
(***************************************************************************)
\* the text has the brackets of an array literal
Bracketed(t) == Len(t) >= 2 /\ t[1] = "[" /\ t[Len(t)] = "]"

\* the element texts of the inside of an array literal, cut at the commas that
\* are neither inside a quoted string nor inside nested brackets
RECURSIVE TopLevelFrom(_, _, _, _, _)
TopLevelFrom(s, i, depth, quoted, cur) ==
    IF i > Len(s) THEN (IF TrimSpace(cur) = <<>> THEN <<>> ELSE <<TrimSpace(cur)>>)
    ELSE IF s[i] = "\"" /\ ~(i > 1 /\ s[i - 1] = "\\")
         THEN TopLevelFrom(s, i + 1, depth, ~quoted, Append(cur, s[i]))
    ELSE IF ~quoted /\ s[i] = "["
         THEN TopLevelFrom(s, i + 1, depth + 1, quoted, Append(cur, s[i]))
    ELSE IF ~quoted /\ s[i] = "]"
         THEN TopLevelFrom(s, i + 1, depth - 1, quoted, Append(cur, s[i]))
    ELSE IF ~quoted /\ depth = 0 /\ s[i] = ","
         THEN (IF TrimSpace(cur) = <<>> THEN <<>> ELSE <<TrimSpace(cur)>>)
                  \o TopLevelFrom(s, i + 1, depth, quoted, <<>>)
    ELSE TopLevelFrom(s, i + 1, depth, quoted, Append(cur, s[i]))

TopLevel(t) == TopLevelFrom(SubSeq(t, 2, Len(t) - 1), 1, 0, FALSE, <<>>)

NestedPairs == <<"[", "[", "1", ",", " ", "2", "]", ",", " ", "[", "3", ",", " ", "4", "]", "]">>

QuotedComma == <<"[", "\"", "a", ",", "b", "\"", ",", " ", "\"", "x", "\"", "]">>

Ints(texts) == [i \in 1..Len(texts) |-> Scalar("int64", texts[i])]

Strings(texts) == [i \in 1..Len(texts) |-> Scalar("string", texts[i])]

\* C21 (array splitting): the elements of an array literal are cut at top-level
\* commas only. `v = [[1, 2], [3, 4]]` is an array of the two arrays [1, 2] and
\* [3, 4], `v = ["a,b", "x"]` an array of the two strings `a,b` and `x`, and
\* every array a parse delivers has as many elements as its literal has
\* top-level element texts.
C21_ArraySplitting ==
    /\ (pc # "parse" /\ data = KeyV \o NestedPairs) =>
          /\ pc # "failed"
          /\ Len(target.m[<<"v">>].elems) = 2
          /\ target.m[<<"v">>].elems[1].elems = Ints(<<(<<"1">>), (<<"2">>)>>)
          /\ target.m[<<"v">>].elems[2].elems = Ints(<<(<<"3">>), (<<"4">>)>>)
    /\ (pc # "parse" /\ data = KeyV \o QuotedComma) =>
          /\ pc # "failed"
          /\ target.m[<<"v">>].elems = Strings(<<(<<"a", ",", "b">>), (<<"x">>)>>)
    /\ \A t \in ValueTexts :
          (pc = "done" /\ data = KeyV \o t /\ Bracketed(t)) =>
              Len(target.m[<<"v">>].elems) = Len(TopLevel(t))

\* a value text that opens a quoted string and does not close it: it starts with
\* `"` and has no second `"` at its end, or that one is preceded by a backslash
Unclosed(t) ==
    /\ t # <<>>
    /\ t[1] = "\""
    /\ \/ Len(t) = 1
       \/ t[Len(t)] # "\""
       \/ t[Len(t) - 1] = "\\"

\* C22 (unterminated strings): a value that starts with `"` and has no closing
\* unescaped `"` fails the parse with the unterminated-string error; so do the
\* value that is the single character `"` and the value whose last quote is
\* preceded by a backslash.
C22_UnterminatedStrings ==
    \A t \in ValueTexts :
        (pc # "parse" /\ data = KeyV \o t /\ Unclosed(t)) =>
            pc = "failed" /\ err.kind = errUnterminatedString

\* the decimal form of a float: an optional sign, digits, `.`, digits
DecimalFloat(t) ==
    LET body == IF t # <<>> /\ t[1] \in {"+", "-"} THEN Tail(t) ELSE t
        dot  == Index(body, <<".">>)
    IN /\ dot >= 1
       /\ dot + 1 < Len(body)
       /\ \A i \in 1..Len(body) : i # dot + 1 => body[i] \in Digits

\* C23 (floats are decimal only): a value is a float only if its text is a sign,
\* digits, a `.` and digits; a trailing `.` with no fraction digit (`123.`) fails
\* with the invalid-number error, and exponents, `inf` and `nan` give no float.
C23_FloatsDecimalOnly ==
    /\ \A t \in ValueTexts :
          (pc = "done" /\ data = KeyV \o t /\ Kind(target.m[<<"v">>]) = "float") =>
              DecimalFloat(t)
    /\ (pc # "parse" /\ data = KeyV \o <<"1", "2", "3", ".">>) =>
          pc = "failed" /\ err.kind = errInvalidNumber

\* what a bare string may not hold: whitespace and the characters `,#=[]`
BareForbidden == {" ", "\t", "\n", "\r", ",", "#", "=", "[", "]"}

\* a text that is read as a bare string or refused as one: it starts with a
\* letter and is neither a boolean nor the name of a float
BareCandidate(t) ==
    /\ t # <<>>
    /\ t[1] \in LowerLetters
    /\ t \notin {<<"t", "r", "u", "e">>, <<"f", "a", "l", "s", "e">>,
                <<"i", "n", "f">>, <<"n", "a", "n">>}

\* C24 (bare strings): a bare string holds no whitespace and none of `,#=[]`; a
\* candidate text that holds one of them fails with the invalid-string error,
\* and one that holds none is delivered to a map target as a string.
C24_BareStrings ==
    \A t \in ValueTexts :
        (pc # "parse" /\ prior = PriorMap /\ data = KeyV \o t /\ BareCandidate(t)) =>
            IF \E i \in 1..Len(t) : t[i] \in BareForbidden
            THEN pc = "failed" /\ err.kind = errInvalidString
            ELSE pc # "failed" /\ target.m[<<"v">>] = Scalar("string", t)

\* malformed value texts: no text, an unterminated string, an invalid escape, a
\* heterogeneous array
Malformed ==
    {<<>>,
     <<"\"", "a", "b">>,
     <<"\"", "a", "\\", "q", "b", "\"">>,
     <<"[", "1", ",", " ", "\"", "x", "\"", "]">>}

\* C25 as stated (duplicates are still lexed): a line whose value text is
\* malformed makes the parse fail also when its key already has a value from
\* an earlier line.
C25_DuplicatesStillLexed ==
    \A t \in Malformed :
        (pc # "parse" /\ data = FirstLine \o KeyV \o t) => pc = "failed"

\* C25 as amended (duplicates are not lexed): a malformed value text makes the
\* parse fail on a line whose key has no value yet; on a line whose key already
\* has a value the text is not looked at, the parse succeeds and the first
\* value is delivered.
C25_DuplicatesNotLexed ==
    \A t \in Malformed :
        /\ (pc # "parse" /\ data = KeyV \o t) => pc = "failed"
        /\ (pc # "parse" /\ data = FirstLine \o KeyV \o t) =>
              /\ pc \notin {"failed", "panicked"}
              /\ target = MapValue(<<"v">> :> Scalar("int64", <<"1">>))

C25_Witness ==
    /\ pc = "done"
    /\ data = FirstLine \o KeyV \o <<"\"", "a", "b">>
    /\ lineNum = 2
    /\ target = MapValue(<<"v">> :> Scalar("int64", <<"1">>))

\* the names between the brackets of a header line
HeaderNames(l) == Split(SubSeq(l, 2, Len(l) - 1), <<".">>)

\* the line of the pool the parser reads next
NextLineIs(l) == data \in NestDocs /\ pc = "parse" /\ HasPrefix(unread, l \o <<"\n">>)

\* the tree after the step is the tree before it with the tables of added, each
\* without a key
TablesAdded(added) ==
    /\ DOMAIN root' = DOMAIN root \cup added
    /\ \A q \in DOMAIN root : root'[q] = root[q]
    /\ \A q \in added \ DOMAIN root : root'[q] = EmptyMap

\* C26 (headers are absolute): a header `[a.b]` names a path from the root,
\* whatever table the cursor was at: after `[a]` then `[b]`, b is a child of the
\* root.  The tables of the path that are missing are created, those that exist
\* are left as they are, and the cursor moves to the last one; a following key
\* without a dot goes to the table of the most recent header.
C26_HeadersAbsolute ==
    [][\A l \in NestLines :
          NextLineIs(l) =>
             IF l[1] = "["
             THEN /\ current' = HeaderNames(l)
                  /\ TablesAdded({SubSeq(HeaderNames(l), 1, i) : i \in 1..Len(HeaderNames(l))})
             ELSE \A k \in {<<"a">>, <<"b">>} :
                     HasPrefix(l, k \o <<" ">>) =>
                        /\ current' = current
                        /\ DOMAIN root' = DOMAIN root
                        /\ k \in DOMAIN root'[current]
                        /\ \A q \in DOMAIN root \ {current} : root'[q] = root[q]]_vars

C26_Witness ==
    /\ pc = "done"
    /\ data = <<"[", "a", "]", "\n", "[", "b", "]", "\n", "b", " ", "=", " ", "2", "\n">>
    /\ DOMAIN root = {<<>>, <<(<<"a">>)>>, <<(<<"b">>)>>}
    /\ current = <<(<<"b">>)>>
    /\ root[<<(<<"b">>)>>] = (<<"b">> :> Scalar("int64", <<"2">>))
    /\ target = MapValue(<<"b">> :> MapValue(<<"b">> :> Scalar("int64", <<"2">>)))

\* the paths of the tables of a map, the map itself at the empty path
RECURSIVE TablePaths(_)
TablePaths(v) ==
    {<<>>} \cup UNION {{<<k>> \o p : p \in TablePaths(v.m[k])} :
                          k \in {c \in DOMAIN v.m : Kind(v.m[c]) = "map"}}

\* the table of a map at a path
RECURSIVE TableAt(_, _)
TableAt(v, path) == IF path = <<>> THEN v ELSE TableAt(v.m[Head(path)], Tail(path))

\* the keys of a table that hold no table
ScalarKeys(t) == {k \in DOMAIN t.m : Kind(t.m[k]) # "map"}

\* the paths of the headers of an output
HeadersOf(text) ==
    {HeaderPath(OutLines(text)[i]) : i \in {j \in 1..Len(OutLines(text)) : IsHeader(OutLines(text)[j])}}

\* a table without a key that is the only entry of the table it is in
OnlyContent(v, path) ==
    /\ path # <<>>
    /\ DOMAIN TableAt(v, path).m = {}
    /\ Cardinality(DOMAIN TableAt(v, SubSeq(path, 1, Len(path) - 1)).m) = 1

DottedLine == <<"a", ".", "b", " ", "=", " ", "1">>

\* C28 (dotted keys leave the cursor alone): the line `a.b = 1` read inside a
\* table t stores b in the table a of t, created if missing, and leaves the
\* cursor at t, so a following `b = 2` is stored in t and not in t.a.
C28_DottedKeysKeepCursor ==
    [][/\ NextLineIs(DottedLine) =>
             /\ current' = current
             /\ Append(current, <<"a">>) \in DOMAIN root'
             /\ <<"b">> \in DOMAIN root'[Append(current, <<"a">>)]
       /\ (NextLineIs(<<"b", " ", "=", " ", "2">>) /\ Append(current, <<"a">>) \in DOMAIN root) =>
             /\ <<"b">> \in DOMAIN root'[current]
             /\ root'[Append(current, <<"a">>)] = root[Append(current, <<"a">>)]]_vars

\* `[a]`, `a.b = 1`, `b = 2` has been parsed: a.a.b is 1 and a.b is 2
C28_Witness ==
    /\ pc = "done"
    /\ data = <<"[", "a", "]", "\n">> \o DottedLine \o <<"\n", "b", " ", "=", " ", "2", "\n">>
    /\ current = <<(<<"a">>)>>
    /\ root[<<(<<"a">>), (<<"a">>)>>] = (<<"b">> :> Scalar("int64", <<"1">>))
    /\ root[<<(<<"a">>)>>] = (<<"b">> :> Scalar("int64", <<"2">>))

\* the table at path or a table below it holds a key
HasContent(tree, path) == \E q \in DOMAIN tree : HasPrefix(q, path) /\ DOMAIN tree[q] # {}

\* C29 (scalar and table of the same name): a table may hold a scalar key and a
\* child table of one name (`a = 1`, then `[a]` and `b = 2`).  Parsing succeeds;
\* in the map returned the child table, when it has content, takes the name and
\* the scalar is dropped, and the scalar keeps the name when the child has none.
C29_ScalarAndTableOfOneName ==
    data \in NestDocs =>
        /\ pc \notin {"failed", "panicked"}
        /\ pc = "done" =>
              \A q \in DOMAIN root : \A n \in DOMAIN root[q] :
                  Append(q, n) \in DOMAIN root =>
                      IF HasContent(root, Append(q, n))
                      THEN /\ Kind(TableAt(target, q).m[n]) = "map"
                           /\ DOMAIN root[Append(q, n)] \subseteq DOMAIN TableAt(target, q).m[n].m
                      ELSE TableAt(target, q).m[n] = root[q][n]

\* `a = 1`, `[a]`, `b = 2` has been parsed and {a: {b: 2}} delivered
C29_Witness ==
    /\ pc = "done"
    /\ data = <<"a", " ", "=", " ", "1", "\n", "[", "a", "]", "\n", "b", " ", "=", " ", "2", "\n">>
    /\ root[<<>>] = (<<"a">> :> Scalar("int64", <<"1">>))
    /\ root[<<(<<"a">>)>>] = (<<"b">> :> Scalar("int64", <<"2">>))
    /\ target = MapValue(<<"a">> :> MapValue(<<"b">> :> Scalar("int64", <<"2">>)))

\* C30 (empty tables on parse): a table with no key of its own and no table
\* below it with a key does not appear in the map Unmarshal returns, at any
\* depth, and every other table does; a document of only such headers gives
\* the empty map.
C30_EmptyTablesOnParse ==
    (data \in NestDocs /\ pc = "done") =>
        /\ \A q \in DOMAIN root \ {<<>>} : q \in TablePaths(target) <=> HasContent(root, q)
        /\ (\A q \in DOMAIN root : DOMAIN root[q] = {}) => target = MapValue(EmptyMap)

\* `[a]`, `[a.b]`, `[b]` has been parsed: three tables in the tree, the empty map
\* delivered
C30_Witness ==
    /\ pc = "done"
    /\ data = <<"[", "a", "]", "\n", "[", "a", ".", "b", "]", "\n", "[", "b", "]", "\n">>
    /\ DOMAIN root = {<<>>, <<(<<"a">>)>>, <<(<<"a">>), (<<"b">>)>>, <<(<<"b">>)>>}
    /\ target = MapValue(EmptyMap)

====
